---- MODULE Spec2Model ----
(***************************************************************************)
(* Model of cli/pgext/tabulate.py: the extension catalog (pigsty.csv) is   *)
(* loaded, flags are derived, and markdown documents are rendered.         *)
(*                                                                         *)
(* Python strings are sequences of one-character strings, so that          *)
(* str.replace, str.split, str.join, str.rstrip, str.lower and             *)
(* str.startswith are computed as Python computes them.                    *)
(***************************************************************************)
EXTENDS Integers, Sequences, FiniteSets, TLC

(***************************************************************************)
(* Bounds of the model.                                                    *)
(***************************************************************************)
\* longest catalog (number of CSV rows) of the batch specifications
MaxRows == 2

\* longest column list of a direct call of tabulate
MaxCols == 2

(***************************************************************************)
(* Python string and list primitives.                                      *)
(***************************************************************************)
\* x in list
In(x, list) == \E i \in 1..Len(list) : list[i] = x

\* s.startswith(p)
StartsWith(s, p) == Len(s) >= Len(p) /\ SubSeq(s, 1, Len(p)) = p

\* s.endswith(p)
EndsWith(s, p) == Len(s) >= Len(p) /\ SubSeq(s, Len(s) - Len(p) + 1, Len(s)) = p

\* sub in s   (substring test, sub non-empty or empty)
Contains(s, sub) ==
    \E i \in 1..(Len(s) - Len(sub) + 1) : SubSeq(s, i, i + Len(sub) - 1) = sub

\* the places of s where old stands
Occurrences(s, old) ==
    {i \in 1..(Len(s) - Len(old) + 1) :
        s[i] = old[1] /\ SubSeq(s, i, i + Len(old) - 1) = old}

\* the value of a local variable or of an argument: The({e : v \in {x}}) is e
\* with v bound to the value of x, which is computed once, as Python computes
\* x before it runs the code that uses v
The(S) == CHOOSE r \in S : TRUE

\* a list built by a comprehension, as a list of computed items
List(f) == f \o <<>>

\* s.replace(old, new) for a non-empty old: every non-overlapping occurrence,
\* scanning from the left; at is where old stands in s
RECURSIVE ReplaceAt(_, _, _, _)
ReplaceAt(s, old, new, at) ==
    IF at = {} THEN s
    ELSE The({The({SubSeq(s, 1, m - 1) \o new \o ReplaceAt(rest, old, new, later)
                   : rest  \in {SubSeq(s, m + Len(old), Len(s))},
                     later \in {{i - (m + Len(old) - 1) :
                                    i \in {j \in at : j >= m + Len(old)}}}})
              : m \in {CHOOSE i \in at : \A j \in at : i <= j}})

Replace(s, old, new) ==
    The({The({ReplaceAt(v, old, new, at) : at \in {Occurrences(v, old)}}) : v \in {s}})

\* s.split(c) for a one-character separator c: empty fields are kept and
\* ''.split(c) is ['']
RECURSIVE Split(_, _)
Split(s, c) ==
    The({(IF \A i \in 1..Len(v) : v[i] # c THEN <<v>>
          ELSE The({<<SubSeq(v, 1, k - 1)>> \o Split(SubSeq(v, k + 1, Len(v)), c)
                    : k \in {CHOOSE i \in 1..Len(v) :
                                 v[i] = c /\ \A j \in 1..(i - 1) : v[j] # c}}))
         : v \in {s}})

\* sep.join(list)
RECURSIVE Join(_, _)
Join(list, sep) ==
    The({(IF Len(l) = 0 THEN <<>>
          ELSE IF Len(l) = 1 THEN l[1]
          ELSE l[1] \o sep \o Join(Tail(l), sep))
         : l \in {list}})

\* s.rstrip(chars): drop every trailing character that is in chars
RECURSIVE RStrip(_, _)
RStrip(s, chars) ==
    The({(IF Len(v) > 0 /\ v[Len(v)] \in chars
          THEN RStrip(SubSeq(v, 1, Len(v) - 1), chars)
          ELSE v)
         : v \in {s}})

\* fromkeys without the deduplication: every item is kept
KeepAll(list) == list

\* list(dict.fromkeys(list)): first occurrences, in order
fromkeys(list) ==
    The({The({List([n \in 1..Cardinality(keep) |->
                       l[CHOOSE i \in keep : Cardinality({j \in keep : j < i}) = n - 1]])
              : keep \in {{i \in 1..Len(l) : \A j \in 1..(i - 1) : l[j] # l[i]}}})
         : l \in {list}})

\* the concatenation of a list of lists (list.extend in a loop)
RECURSIVE Extend(_)
Extend(lists) ==
    The({(IF Len(l) = 0 THEN <<>> ELSE Head(l) \o Extend(Tail(l))) : l \in {lists}})

\* [x for x in list if keep[x]] given the indices to keep
SelectIdx(list, keep, i) ==
    The({The({List([n \in 1..Cardinality(ks) |->
                       l[CHOOSE j \in ks : Cardinality({h \in ks : h < j}) = n - 1]])
              : ks \in {{j \in keep : j >= i /\ j <= Len(l)}}})
         : l \in {list}})

Digits == <<"0", "1", "2", "3", "4", "5", "6", "7", "8", "9">>

DigitVal(c) == (CHOOSE k \in 1..10 : Digits[k] = c) - 1

IsDigits(s) == Len(s) > 0 /\ \A i \in 1..Len(s) : In(s[i], Digits)

\* int(s) for a string of decimal digits
RECURSIVE int(_)
int(s) ==
    The({(IF Len(v) = 0 THEN 0
          ELSE 10 * int(SubSeq(v, 1, Len(v) - 1)) + DigitVal(v[Len(v)]))
         : v \in {s}})

\* str(n) for n >= 0
RECURSIVE str(_)
str(n) ==
    The({(IF v < 10 THEN <<Digits[v + 1]>>
          ELSE str(v \div 10) \o <<Digits[(v % 10) + 1]>>)
         : v \in {n}})

LowerOf(c) ==
    CASE c = "A" -> "a" [] c = "B" -> "b" [] c = "C" -> "c" [] c = "D" -> "d"
      [] c = "E" -> "e" [] c = "F" -> "f" [] c = "G" -> "g" [] c = "H" -> "h"
      [] c = "I" -> "i" [] c = "J" -> "j" [] c = "K" -> "k" [] c = "L" -> "l"
      [] c = "M" -> "m" [] c = "N" -> "n" [] c = "O" -> "o" [] c = "P" -> "p"
      [] c = "Q" -> "q" [] c = "R" -> "r" [] c = "S" -> "s" [] c = "T" -> "t"
      [] c = "U" -> "u" [] c = "V" -> "v" [] c = "W" -> "w" [] c = "X" -> "x"
      [] c = "Y" -> "y" [] c = "Z" -> "z" [] OTHER -> c

\* s.lower()
lower(s) == The({List([i \in 1..Len(v) |-> LowerOf(v[i])]) : v \in {s}})

(***************************************************************************)
(* Program constants.                                                      *)
(***************************************************************************)
PG_VERS == <<<<"1","7">>, <<"1","6">>, <<"1","5">>, <<"1","4">>, <<"1","3">>, <<"1","2">>>>

DISTROS == <<<<"e","l","8">>, <<"e","l","9">>, <<"d","1","2">>, <<"u","2","2">>, <<"u","2","4">>>>

DEB_OS == <<<<"d","1","2">>, <<"u","2","2">>, <<"u","2","4">>>>

RPM_OS == <<<<"e","l","8">>, <<"e","l","9">>>>

THROW_LIST == <<>>

HIDE_LIST == <<<<"p","g","p","o","o","l">>, <<"p","l","r">>, <<"p","g","a","g","e","n","t">>, <<"d","b","t","2">>, <<"p","g","t","a","p">>, <<"f","a","k","e","r">>,
               <<"r","e","p","m","g","r">>, <<"s","l","o","n","y">>, <<"o","r","a","c","l","e","_","f","d","w">>, <<"p","g","_","s","t","r","o","m">>, <<"d","b","2","_","f","d","w">>>>

\* these extensions will be commented in pg_extensions due to conflict
EXT_NOP_LIST == <<<<"p","g","_","m","o","o","n","c","a","k","e">>, <<"c","i","t","u","s">>>>

\* DISTRO_MISS without the entry of el9
DISTRO_MISS_WithoutEl9 ==
    (<<"e","l","7">> :> <<<<"p","g","_","d","b","m","s","_","j","o","b">>, <<"p","l","j","a","v","a">>>>) @@
    (<<"e","l","8">> :> <<<<"p","g","_","d","b","m","s","_","j","o","b">>, <<"p","l","j","a","v","a">>>>) @@
    (<<"u","2","4">> :> <<<<"p","g","m","l">>, <<"c","i","t","u","s">>, <<"t","o","p","n">>, <<"t","i","m","e","s","c","a","l","e","d","b","_","t","o","o","l","k","i","t">>>>) @@
    (<<"u","2","2">> :> <<>>) @@
    (<<"u","2","0">> :> <<<<"p","l","j","a","v","a">>>>) @@
    (<<"d","1","2">> :> <<>>) @@
    (<<"d","1","1">> :> <<<<"p","l","j","a","v","a">>>>)

\* DISTRO_MISS as a function from the distro to the names missing there
DISTRO_MISS ==
    (<<"e","l","7">> :> <<<<"p","g","_","d","b","m","s","_","j","o","b">>, <<"p","l","j","a","v","a">>>>) @@
    (<<"e","l","8">> :> <<<<"p","g","_","d","b","m","s","_","j","o","b">>, <<"p","l","j","a","v","a">>>>) @@
    (<<"e","l","9">> :> <<<<"p","g","_","d","b","m","s","_","j","o","b">>>>) @@
    (<<"u","2","4">> :> <<<<"p","g","m","l">>, <<"c","i","t","u","s">>, <<"t","o","p","n">>, <<"t","i","m","e","s","c","a","l","e","d","b","_","t","o","o","l","k","i","t">>>>) @@
    (<<"u","2","2">> :> <<>>) @@
    (<<"u","2","0">> :> <<<<"p","l","j","a","v","a">>>>) @@
    (<<"d","1","2">> :> <<>>) @@
    (<<"d","1","1">> :> <<<<"p","l","j","a","v","a">>>>)

\* the distro names accepted as the rpm family and as the deb family
\* RpmFamily with el10
RpmFamilyWithEl10 == {<<"r","p","m">>, <<"e","l","7">>, <<"e","l","8">>, <<"e","l","9">>, <<"e","l","1","0">>}

\* distro in ('rpm', 'el7', 'el8', 'el9')
RpmFamily == {<<"r","p","m">>, <<"e","l","7">>, <<"e","l","8">>, <<"e","l","9">>}

\* distro in ('deb', 'u20', 'u22', 'u24', 'd12', 'd11')

DebFamily == {<<"d","e","b">>, <<"u","2","0">>, <<"u","2","2">>, <<"u","2","4">>, <<"d","1","2">>, <<"d","1","1">>}

\* FamilyKeys with the deb branch reading the rpm columns
FamilyKeysRpmOnly(distro) ==
    [REPO_KEY |-> "rpm_repo", PKG_KEY |-> "rpm_pkg",
     VER_KEY |-> "rpm_pg", HAS_KEY |-> "has_rpm"]

\* REPO_KEY, PKG_KEY, VER_KEY, HAS_KEY of a distro of one of the two families
FamilyKeys(distro) ==
    IF distro \in RpmFamily
    THEN [REPO_KEY |-> "rpm_repo", PKG_KEY |-> "rpm_pkg",
          VER_KEY |-> "rpm_pg", HAS_KEY |-> "has_rpm"]
    ELSE [REPO_KEY |-> "deb_repo", PKG_KEY |-> "deb_pkg",
          VER_KEY |-> "deb_pg", HAS_KEY |-> "has_deb"]

(***************************************************************************)
(* load_data: one CSV row (every column a string) to one catalog row.      *)
(***************************************************************************)
\* parse_array: '{a,b}' to ['a','b']; anything without the braces to []
parse_array(v) ==
    IF StartsWith(v, <<"{">>) /\ EndsWith(v, <<"}">>)
    THEN Split(SubSeq(v, 2, Len(v) - 1), ",")
    ELSE <<>>

\* if row[c]: row[c] = parse_array(row[c])   (the empty string stays)
ArrayColumn(v) == IF Len(v) > 0 THEN parse_array(v) ELSE v

\* True if v == 't' else False if v == 'f' else None
TriState(v) == IF v = <<"t">> THEN "True" ELSE IF v = <<"f">> THEN "False" ELSE "None"

\* the truth value Python gives a True / False / None column
Truthy(b) == b = "True"

\* RepoFlags with 'TIMESCALE' left out of the repositories that are not misc
RepoFlagsTimescaleMisc(has, repo) ==
    [pgdg   |-> has /\ repo = <<"P","G","D","G">>,
     pigsty |-> has /\ repo = <<"P","I","G","S","T","Y">>,
     misc   |-> has /\ repo \notin {<<"P","G","D","G">>, <<"P","I","G","S","T","Y">>, <<"C","I","T","U","S">>, <<"C","O","N","T","R","I","B">>, <<>>}]

\* the three repository flags of one family (rpm_* or deb_*)
RepoFlags(has, repo) ==
    [pgdg   |-> has /\ repo = <<"P","G","D","G">>,
     pigsty |-> has /\ repo = <<"P","I","G","S","T","Y">>,
     misc   |-> has /\ repo \notin {<<"P","G","D","G">>, <<"P","I","G","S","T","Y">>, <<"T","I","M","E","S","C","A","L","E">>, <<"C","I","T","U","S">>,
                                     <<"C","O","N","T","R","I","B">>, <<>>}]

load_row(raw) ==
    LET has_rpm == Len(raw.rpm_repo) > 0
        has_deb == Len(raw.deb_repo) > 0
        pg_ver  == ArrayColumn(raw.pg_ver)
    IN  [id          |-> int(raw.id),
         name        |-> raw.name,
         alias       |-> raw.alias,
         category    |-> raw.category,
         url         |-> raw.url,
         license     |-> raw.license,
         tags        |-> ArrayColumn(raw.tags),
         version     |-> raw.version,
         repo        |-> raw.repo,
         lang        |-> raw.lang,
         utility     |-> TriState(raw.utility),
         lead        |-> TriState(raw.lead),
         has_solib   |-> TriState(raw.has_solib),
         need_ddl    |-> TriState(raw.need_ddl),
         need_load   |-> TriState(raw.need_load),
         trusted     |-> TriState(raw.trusted),
         relocatable |-> TriState(raw.relocatable),
         schemas     |-> ArrayColumn(raw.schemas),
         pg_ver      |-> pg_ver,
         requires    |-> ArrayColumn(raw.requires),
         rpm_ver     |-> raw.rpm_ver,
         rpm_repo    |-> raw.rpm_repo,
         rpm_pkg     |-> raw.rpm_pkg,
         rpm_pg      |-> ArrayColumn(raw.rpm_pg),
         rpm_deps    |-> ArrayColumn(raw.rpm_deps),
         deb_ver     |-> raw.deb_ver,
         deb_repo    |-> raw.deb_repo,
         deb_pkg     |-> raw.deb_pkg,
         deb_pg      |-> ArrayColumn(raw.deb_pg),
         deb_deps    |-> ArrayColumn(raw.deb_deps),
         en_desc     |-> raw.en_desc,
         zh_desc     |-> raw.zh_desc,
         comment     |-> raw.comment,
         has_rpm     |-> has_rpm,
         has_deb     |-> has_deb,
         has_both    |-> Len(raw.deb_repo) > 0 /\ Len(raw.deb_repo) > 0,
         pg12        |-> In(<<"1","2">>, pg_ver),
         pg13        |-> In(<<"1","3">>, pg_ver),
         pg14        |-> In(<<"1","4">>, pg_ver),
         pg15        |-> In(<<"1","5">>, pg_ver),
         pg16        |-> In(<<"1","6">>, pg_ver),
         pg17        |-> In(<<"1","7">>, pg_ver),
         contrib     |-> raw.repo = <<"C","O","N","T","R","I","B">>,
         rpm_pgdg    |-> RepoFlags(has_rpm, raw.rpm_repo).pgdg,
         rpm_pigsty  |-> RepoFlags(has_rpm, raw.rpm_repo).pigsty,
         rpm_misc    |-> RepoFlags(has_rpm, raw.rpm_repo).misc,
         deb_pgdg    |-> RepoFlags(has_deb, raw.deb_repo).pgdg,
         deb_pigsty  |-> RepoFlags(has_deb, raw.deb_repo).pigsty,
         deb_misc    |-> RepoFlags(has_deb, raw.deb_repo).misc]

\* load_data: the rows of the CSV file, in file order
load_data(rows) == List([i \in 1..Len(rows) |-> load_row(rows[i])])

(***************************************************************************)
(* process_ext and judge_ext.  A call either returns or raises; the result *)
(* records which ("ok", "ValueError", "KeyError") and, when it returned,   *)
(* the returned tuple.                                                     *)
(***************************************************************************)
\* the result of a process_ext call that raised
ProcessRaise(e) ==
    [status |-> e, pkg_aye |-> <<>>, pkg_nay |-> <<>>, ext_aye |-> <<>>, ext_nay |-> <<>>]

\* the result of a judge_ext call that raised
JudgeRaise(e) ==
    [status |-> e, package |-> <<>>, extension |-> <<>>, avail |-> FALSE]

\* BabelfishDistros with d12
BabelfishDistrosWithD12 == {<<"e","l","7">>, <<"e","l","8">>, <<"e","l","9">>, <<"u","2","0">>, <<"u","2","2">>, <<"u","2","4">>, <<"d","1","2">>}

\* the distros wiltondb is available on
BabelfishDistros == {<<"e","l","7">>, <<"e","l","8">>, <<"e","l","9">>, <<"u","2","0">>, <<"u","2","2">>, <<"u","2","4">>}

\* The renames process_ext and judge_ext share.  Each takes the package and
\* extension so far (pe) and gives them after its statement.

\* RenamePgaudit adding 1 to the version instead of 2
RenamePgauditPlusOne(ver, distro, name, alias, pe) ==
    IF name = <<"p","g","a","u","d","i","t">> /\ In(distro, RPM_OS)
       /\ In(ver, <<<<"1","2">>, <<"1","3">>, <<"1","4">>, <<"1","5">>>>)
    THEN [package   |-> Replace(pe.package, <<"p","g","a","u","d","i","t">>,
                                <<"p","g","a","u","d","i","t">> \o str(int(ver) + 1)),
          extension |-> alias \o str(int(ver) + 1)]
    ELSE pe

\* pgaudit bad case: pg16+ = pgaudit, pg15=pgaudit17, pg14=pgaudit16
\* pg13=pgaudit15 pg12=pgaudit14
RenamePgaudit(ver, distro, name, alias, pe) ==
    IF name = <<"p","g","a","u","d","i","t">> /\ In(distro, RPM_OS)
       /\ In(ver, <<<<"1","2">>, <<"1","3">>, <<"1","4">>, <<"1","5">>>>)
    THEN [package   |-> Replace(pe.package, <<"p","g","a","u","d","i","t">>,
                                <<"p","g","a","u","d","i","t">> \o str(int(ver) + 2)),
          extension |-> alias \o str(int(ver) + 2)]
    ELSE pe

\* RenameCitus with the packages of PG12 and PG13 exchanged
RenameCitusExchanged(ver, distro, name, alias, pe) ==
    IF name = <<"c","i","t","u","s">> /\ In(distro, DEB_OS) /\ In(ver, <<<<"1","2">>, <<"1","3">>>>)
    THEN [package   |-> Replace(pe.package, <<"c","i","t","u","s","-","1","2",".","1">>,
                                <<"c","i","t","u","s","-">> \o (IF ver = <<"1","3">> THEN <<"1","0",".","2">>
                                                           ELSE <<"1","1",".","3">>)),
          extension |-> alias \o str(int(ver) - 2)]
    ELSE pe

\* citus on deb: pg13 = citus11 (11.3), pg12 = citus10 (10.2)
RenameCitus(ver, distro, name, alias, pe) ==
    IF name = <<"c","i","t","u","s">> /\ In(distro, DEB_OS) /\ In(ver, <<<<"1","2">>, <<"1","3">>>>)
    THEN [package   |-> Replace(pe.package, <<"c","i","t","u","s","-","1","2",".","1">>,
                                <<"c","i","t","u","s","-">> \o (IF ver = <<"1","2">> THEN <<"1","0",".","2">>
                                                           ELSE <<"1","1",".","3">>)),
          extension |-> alias \o str(int(ver) - 2)]
    ELSE pe

\* RenamePostgis with the postgis34 rule not limited to PG12
RenamePostgisAnyVersion(ver, distro, name, alias, pe) ==
    LET on12 == IF name = <<"p","o","s","t","g","i","s">> /\ In(distro, <<<<"e","l","8">>, <<"e","l","9">>>>)
                THEN [package   |-> Replace(pe.package, <<"p","o","s","t","g","i","s","3","5">>, <<"p","o","s","t","g","i","s","3","4">>),
                      extension |-> <<"p","o","s","t","g","i","s","3","4">>]
                ELSE pe
    IN  IF name = <<"p","o","s","t","g","i","s">> /\ distro = <<"e","l","7">>
        THEN [package   |-> Replace(on12.package, <<"p","o","s","t","g","i","s","3","5">>, <<"p","o","s","t","g","i","s","3","3">>),
              extension |-> <<"p","o","s","t","g","i","s","3","3">>]
        ELSE on12

\* el8/9 will use postgis34 for pg12; el7 with postgis33
RenamePostgis(ver, distro, name, alias, pe) ==
    LET on12 == IF name = <<"p","o","s","t","g","i","s">> /\ In(distro, <<<<"e","l","8">>, <<"e","l","9">>>>) /\ ver = <<"1","2">>
                THEN [package   |-> Replace(pe.package, <<"p","o","s","t","g","i","s","3","5">>, <<"p","o","s","t","g","i","s","3","4">>),
                      extension |-> <<"p","o","s","t","g","i","s","3","4">>]
                ELSE pe
    IN  IF name = <<"p","o","s","t","g","i","s">> /\ distro = <<"e","l","7">>
        THEN [package   |-> Replace(on12.package, <<"p","o","s","t","g","i","s","3","5">>, <<"p","o","s","t","g","i","s","3","3">>),
              extension |-> <<"p","o","s","t","g","i","s","3","3">>]
        ELSE on12

\* package and extension after the three renames, from the package with the
\* version substituted and the alias
RenameExt(ver, distro, name, alias, package0) ==
    RenamePostgis(ver, distro, name, alias,
        RenameCitus(ver, distro, name, alias,
            RenamePgaudit(ver, distro, name, alias,
                          [package |-> package0, extension |-> alias])))

\* NopExt without citus
NopExtMooncakeOnly(name) == In(name, <<<<"p","g","_","m","o","o","n","c","a","k","e">>>>)

\* if name in ['pg_mooncake', 'citus']: hide_ext = True
NopExt(name) == In(name, <<<<"p","g","_","m","o","o","n","c","a","k","e">>, <<"c","i","t","u","s">>>>)

\* HunspellDrop dropping no extension
HunspellDropNone(name) == FALSE

\* if name.startswith('hunspell') and name != 'hunspell_cs_cz': drop_ext = True
HunspellDrop(name) == StartsWith(name, <<"h","u","n","s","p","e","l","l">>) /\ name # <<"h","u","n","s","p","e","l","l","_","c","s","_","c","z">>

\* Listed without the DISTRO_MISS test
ListedIgnoringMiss(ver, distro, ext) ==
    /\ ext[FamilyKeys(distro).HAS_KEY]
    /\ In(ver, ext[FamilyKeys(distro).VER_KEY])

\* avail and ver in pg_vers and name not in DISTRO_MISS[distro]
Listed(ver, distro, ext) ==
    /\ ext[FamilyKeys(distro).HAS_KEY]
    /\ In(ver, ext[FamilyKeys(distro).VER_KEY])
    /\ ~In(ext.name, DISTRO_MISS[distro])

\* Ubuntu24BadCase with pg_partman and timeseries missing for PG12 only
Ubuntu24BadCasePg12Only(ver, distro, name) ==
    \/ distro = <<"u","2","4">> /\ name = <<"t","i","m","e","s","c","a","l","e","d","b">> /\ ver = <<"1","2">>
    \/ distro = <<"u","2","4">> /\ In(name, <<<<"p","g","_","p","a","r","t","m","a","n">>, <<"t","i","m","e","s","e","r","i","e","s">>>>)
         /\ In(ver, <<<<"1","2">>>>)

\* ubuntu 24.04 bad case: no timescaledb 12, no pg_partman 12,13
Ubuntu24BadCase(ver, distro, name) ==
    \/ distro = <<"u","2","4">> /\ name = <<"t","i","m","e","s","c","a","l","e","d","b">> /\ ver = <<"1","2">>
    \/ distro = <<"u","2","4">> /\ In(name, <<<<"p","g","_","p","a","r","t","m","a","n">>, <<"t","i","m","e","s","e","r","i","e","s">>>>)
         /\ In(ver, <<<<"1","2">>, <<"1","3">>>>)

process_ext(ver, distro, ext) ==
    IF distro \notin RpmFamily \cup DebFamily THEN ProcessRaise("ValueError")
    ELSE
    LET K        == FamilyKeys(distro)
        name     == ext.name
        alias    == ext.alias
        pg_vers  == ext[K.VER_KEY]
        avail    == ext[K.HAS_KEY]
    IN
    \* DISTRO_MISS[distro] is evaluated only when avail and ver in pg_vers
    IF avail /\ In(ver, pg_vers) /\ distro \notin DOMAIN DISTRO_MISS
    THEN ProcessRaise("KeyError")
    ELSE
    The({The({(
    LET nop      == NopExt(name)
        u24bad   == Ubuntu24BadCase(ver, distro, name)
        thrown   == In(alias, THROW_LIST)
        hidden   == In(alias, HIDE_LIST)
        wilton   == name = <<"b","a","b","e","l","f","i","s","h","p","g","_","c","o","m","m","o","n">> /\ distro \in BabelfishDistros
        bfdrop   == \/ In(name, <<<<"b","a","b","e","l","f","i","s","h","p","g","_","t","s","q","l">>, <<"b","a","b","e","l","f","i","s","h","p","g","_","t","d","s">>,
                                  <<"b","a","b","e","l","f","i","s","h","p","g","_","m","o","n","e","y">>>>)
                    \/ StartsWith(name, <<"b","a","b","e","l","f","i","s","h","p","g">>) /\ distro \notin BabelfishDistros
        hunlead  == name = <<"h","u","n","s","p","e","l","l","_","c","s","_","c","z">>
        hundrop  == HunspellDrop(name)
        package   == IF wilton THEN <<"w","i","l","t","o","n","d","b">> ELSE ren.package
        extension == IF hunlead THEN <<"h","u","n","s","p","e","l","l">>
                     ELSE IF wilton THEN <<"w","i","l","t","o","n","d","b">> ELSE ren.extension
        hide_pkg  == ~shown \/ u24bad \/ hidden \/ wilton
        hide_ext  == ~shown \/ nop \/ u24bad \/ hidden \/ wilton
        drop_pkg  == thrown \/ bfdrop
        drop_ext  == thrown \/ bfdrop \/ hundrop
    IN  [status  |-> "ok",
         pkg_aye |-> IF ~drop_pkg /\ ~hide_pkg THEN <<package>> ELSE <<>>,
         pkg_nay |-> IF ~drop_pkg /\ hide_pkg THEN <<<<"#">> \o package>> ELSE <<>>,
         ext_aye |-> IF ~drop_ext /\ ~hide_ext THEN <<extension>> ELSE <<>>,
         ext_nay |-> IF ~drop_ext /\ hide_ext THEN <<<<"#">> \o extension>> ELSE <<>>])
         : shown \in {Listed(ver, distro, ext)},
           ren   \in {RenameExt(ver, distro, name, alias, package0)}})
         : package0 \in {Replace(ext[K.PKG_KEY], <<"$","v">>, ver)}})

\* return (pkg_name, ext_name, available)
judge_ext(ver, distro, ext) ==
    IF distro \notin RpmFamily \cup DebFamily THEN JudgeRaise("ValueError")
    ELSE IF distro \notin DOMAIN DISTRO_MISS THEN JudgeRaise("KeyError")
    ELSE
    LET K        == FamilyKeys(distro)
        name     == ext.name
        alias    == ext.alias
        pg_vers  == ext[K.VER_KEY]
        wilton   == StartsWith(name, <<"b","a","b","e","l","f","i","s","h","p","g">>)
        u24bad   == Ubuntu24BadCase(ver, distro, name)
    IN  The({The({
         [status    |-> "ok",
          package   |-> IF wilton THEN <<"w","i","l","t","o","n","d","b">> ELSE ren.package,
          extension |-> IF wilton THEN <<"w","i","l","t","o","n","d","b">> ELSE ren.extension,
          avail     |-> In(ver, pg_vers) /\ ~In(name, DISTRO_MISS[distro])
                        /\ ~u24bad /\ ~In(alias, THROW_LIST)]
         : ren \in {RenameExt(ver, distro, name, alias, package0)}})
         : package0 \in {Replace(ext[K.PKG_KEY], <<"$","v">>, ver)}})

(***************************************************************************)
(* The state of a run.                                                     *)
(***************************************************************************)
VARIABLES
    csv,      \* the rows of pigsty.csv, every column a string (the input)
    stub,     \* the stub pages: extension name -> content of its stub file
    pc,       \* the statement of the module's main sequence that runs next
    k,        \* the iteration the running loop of generate_category or
              \* generate_extension is at
    DATA,     \* load_data()
    STAT,     \* stat_data(DATA)
    CATE,     \* the categories of DATA, first occurrences in order
    DEP_MAP,  \* name -> the names of the extensions that require it
    EXT_MAP,  \* name -> row
    docs,     \* the documents written so far: <<file, template arguments>>
    run,      \* 1 in the first run of the program over csv, 2 in the second
    prev,     \* the documents the first run wrote, once it has ended
    call      \* the last direct call of a function, with what it returned

vars == <<csv, stub, pc, k, DATA, STAT, CATE, DEP_MAP, EXT_MAP, docs, run, prev, call>>

tables == <<DATA, STAT, CATE, DEP_MAP, EXT_MAP>>

(***************************************************************************)
(* stat_data and the tables built at module level.                         *)
(***************************************************************************)
\* len([i for i in data if keep(i)]), keep given as the indices of the rows kept
Count(data, keep) == Cardinality(keep \cap (1..Len(data)))

\* len(set([i[col] for i in data if keep(i)]))
CountDistinct(data, col, keep) ==
    Cardinality({data[i][col] : i \in keep \cap (1..Len(data))})

\* the per-family block of counters of stat_data, by rows (ext) or by
\* distinct packages (pkg)
FamilyStat(data, has, pg, pgdg, pigsty, misc, pkgcol, byPkg) ==
    LET N(P(_)) == The({(IF byPkg THEN CountDistinct(data, pkgcol, keep)
                                   ELSE Count(data, keep))
                         : keep \in {{i \in 1..Len(data) : P(data[i])}}})
    IN  [all     |-> N(LAMBDA r : r[has]),
         pgdg    |-> N(LAMBDA r : r[has] /\ r[pgdg]),
         pigsty  |-> N(LAMBDA r : r[has] /\ r[pigsty]),
         contrib |-> IF byPkg THEN 1 ELSE Count(data, {i \in 1..Len(data) : data[i].contrib}),
         misc    |-> N(LAMBDA r : r[has] /\ r[misc]),
         miss    |-> N(LAMBDA r : ~r[has]),
         pg12    |-> N(LAMBDA r : r[has] /\ In(<<"1","2">>, r[pg])),
         pg13    |-> N(LAMBDA r : r[has] /\ In(<<"1","3">>, r[pg])),
         pg14    |-> N(LAMBDA r : r[has] /\ In(<<"1","4">>, r[pg])),
         pg15    |-> N(LAMBDA r : r[has] /\ In(<<"1","5">>, r[pg])),
         pg16    |-> N(LAMBDA r : r[has] /\ In(<<"1","6">>, r[pg])),
         pg17    |-> N(LAMBDA r : r[has] /\ In(<<"1","7">>, r[pg]))]

stat_data(data) ==
    [stat    |-> [all     |-> Len(data),
                  rpm     |-> Count(data, {i \in 1..Len(data) : data[i].has_rpm}),
                  deb     |-> Count(data, {i \in 1..Len(data) : data[i].has_deb}),
                  both    |-> Count(data, {i \in 1..Len(data) : data[i].has_rpm /\ data[i].has_deb}),
                  contrib |-> Count(data, {i \in 1..Len(data) : data[i].repo = <<"C","O","N","T","R","I","B">>}),
                  non_contrib |-> Len(data) - Count(data, {i \in 1..Len(data) : data[i].contrib})],
     rpm_ext |-> FamilyStat(data, "has_rpm", "rpm_pg", "rpm_pgdg", "rpm_pigsty",
                            "rpm_misc", "rpm_pkg", FALSE),
     rpm_pkg |-> FamilyStat(data, "has_rpm", "rpm_pg", "rpm_pgdg", "rpm_pigsty",
                            "rpm_misc", "rpm_pkg", TRUE),
     deb_ext |-> FamilyStat(data, "has_deb", "deb_pg", "deb_pgdg", "deb_pigsty",
                            "deb_misc", "deb_pkg", FALSE),
     deb_pkg |-> FamilyStat(data, "has_deb", "deb_pg", "deb_pgdg", "deb_pigsty",
                            "deb_misc", "deb_pkg", TRUE)]

\* CateOrders for a container without an order of its own: any order of the
\* categories of data
CateOrdersAnyOrder(data) ==
    LET cats == {data[i].category : i \in 1..Len(data)}
    IN  {p \in [1..Cardinality(cats) -> cats] :
            \A i, j \in 1..Cardinality(cats) : i # j => p[i] # p[j]}

\* the orders in which the categories of data can come out: the one order of
\* list(dict.fromkeys([i['category'] for i in data]))
CateOrders(data) == {fromkeys(List([i \in 1..Len(data) |-> data[i].category]))}

\* EXT_MAP after the loop over DATA: the last row of each name
BuildExtMap(data) ==
    [n \in {data[i].name : i \in 1..Len(data)} |->
        data[CHOOSE i \in 1..Len(data) :
                 data[i].name = n /\ \A j \in (i + 1)..Len(data) : data[j].name # n]]

\* DEP_MAP after the loop over DATA: for each required name, the requiring
\* names in DATA order, once per mention
BuildDepMap(data) ==
    LET Mentions(i, e) == SelectIdx(List([j \in 1..Len(data[i].requires) |-> data[i].name]),
                                    {j \in 1..Len(data[i].requires) :
                                         data[i].requires[j] = e}, 1)
        required == UNION {{data[i].requires[j] : j \in 1..Len(data[i].requires)} :
                           i \in 1..Len(data)}
    IN  [e \in required |-> Extend(List([i \in 1..Len(data) |-> Mentions(i, e)]))]

(***************************************************************************)
(* gen_ext_list, gen_cate_ext_list, gen_param.                             *)
(***************************************************************************)
\* [e for e in DATA if e['category'] == cate and e[REPO_KEY] != 'CONTRIB' and e['lead']]
CateLeads(cate, REPO_KEY) ==
    SelectIdx(DATA, {i \in 1..Len(DATA) : /\ DATA[i].category = cate
                                          /\ DATA[i][REPO_KEY] # <<"C","O","N","T","R","I","B">>
                                          /\ Truthy(DATA[i].lead)}, 1)

\* the four lists of one category as extended row by row from the
\* process_ext results res, and the two entries made of them; status is that
\* of the first call that raised, if any
EntryOf(res) ==
    LET bad  == {i \in 1..Len(res) : res[i].status # "ok"}
        pkg_aye == Extend(List([i \in 1..Len(res) |-> res[i].pkg_aye]))
        pkg_nay == Extend(List([i \in 1..Len(res) |-> res[i].pkg_nay]))
        ext_aye == Extend(List([i \in 1..Len(res) |-> res[i].ext_aye]))
        ext_nay == Extend(List([i \in 1..Len(res) |-> res[i].ext_nay]))
        repo_entry == RStrip(Join(fromkeys(pkg_aye), <<" ">>) \o <<" ">>
                             \o Join(fromkeys(pkg_nay), <<" ">>), {"#", " "})
        ext_entry  == RStrip(Join(fromkeys(ext_aye), <<" ">>) \o <<" ">>
                             \o Join(fromkeys(ext_nay), <<" ">>), {"#", " "})
    IN  [status  |-> IF bad = {} THEN "ok"
                     ELSE res[CHOOSE i \in bad : \A j \in bad : i <= j].status,
         pkg_aye |-> pkg_aye, pkg_nay |-> pkg_nay,
         ext_aye |-> ext_aye, ext_nay |-> ext_nay,
         repo_entry |-> repo_entry,
         ext_entry  |-> Replace(ext_entry,
             <<"#","b","a","b","e","l","f","i","s","h","p","g","_","c","o","m","m","o","n"," ","#","b","a","b","e","l","f","i","s","h","p","g","_","t","s","q","l"," ","#","b","a","b","e","l","f","i","s","h","p","g","_","t","d","s"," ","#","b","a","b","e","l","f","i","s","h","p","g","_","m","o","n","e","y">>,
             <<"#","w","i","l","t","o","n","d","b">>)]

\* process_ext(ver, distro, ext) for ext in rows
ProcessRows(ver, distro, rows) ==
    The({List([i \in 1..Len(rows) |-> process_ext(v, d, rows[i])])
         : v \in {ver}, d \in {distro}})

\* the body of the loop over one category
CateEntry(ver, distro, cate) ==
    The({The({EntryOf(res) : res \in {ProcessRows(ver, distro, rows)}})
         : rows \in {CateLeads(cate, FamilyKeys(lower(distro)).REPO_KEY)}})

\* the result of a gen_* call that raised
GenRaise(e) == [status |-> e, repo_pkg |-> <<>>, ext_list |-> <<>>]

\* repo_pkg and ext_list of the entries per, one per category
ListsOf(per) ==
    LET bad == {c \in 1..Len(per) : per[c].status # "ok"}
    IN  IF bad # {} THEN GenRaise(per[CHOOSE c \in bad : \A d \in bad : c <= d].status)
        ELSE [status   |-> "ok",
              repo_pkg |-> List([c \in 1..Len(per) |-> per[c].repo_entry]),
              ext_list |-> List([c \in 1..Len(per) |-> per[c].ext_entry])]

gen_ext_list(ver, distro) ==
    The({(IF lower(d) \notin RpmFamily \cup DebFamily THEN GenRaise("ValueError")
          ELSE The({ListsOf(per)
                    : per \in {List([c \in 1..Len(CATE) |-> CateEntry(v, d, CATE[c])])}}))
         : v \in {ver}, d \in {distro}})

gen_cate_ext_list(ver, distro, cate) ==
    The({(IF lower(d) \notin RpmFamily \cup DebFamily THEN GenRaise("ValueError")
          ELSE The({ListsOf(per) : per \in {<<CateEntry(v, d, cate)>>}}))
         : v \in {ver}, d \in {distro}})

\* n copies of the string s ('  ' * n; none when n <= 0)
Times(s, n) == List([i \in 1..(n * Len(s)) |-> s[((i - 1) % Len(s)) + 1]])

\* '%-Ns' % s: s padded with spaces on the right to width N
LeftJustify(s, N) == s \o Times(<<" ">>, N - Len(s))

\* the result of a gen_param call that raised
ParamRaise(e) == [status |-> e, pkg_str |-> <<>>, ext_str |-> <<>>]

\* gen_param after its call of gen_ext_list returned lists
ParamOf(ver, distro, indent, header, lists) ==
    IF lists.status # "ok" THEN ParamRaise(lists.status)
    ELSE
    LET head_pad == Times(<<" "," ">>, indent)
        text_pad == Times(<<" "," ">>, indent + 1) \o <<"-"," ">>
        pgsql_kernel ==
            IF distro \in RpmFamily
            THEN LeftJustify(<<"p","o","s","t","g","r","e","s","q","l">> \o ver \o <<"*">>, 159)
                     \o <<" ","#"," ","P","o","s","t","g","r","e","S","Q","L"," ">> \o ver
            ELSE LeftJustify(<<"p","o","s","t","g","r","e","s","q","l","-">> \o ver \o <<" ","p","o","s","t","g","r","e","s","q","l","-","c","l","i","e","n","t","-">> \o ver
                             \o <<" ","p","o","s","t","g","r","e","s","q","l","-","s","e","r","v","e","r","-","d","e","v","-">> \o ver
                             \o <<" ","p","o","s","t","g","r","e","s","q","l","-","p","l","p","y","t","h","o","n","3","-">> \o ver
                             \o <<" ","p","o","s","t","g","r","e","s","q","l","-","p","l","p","e","r","l","-">> \o ver
                             \o <<" ","p","o","s","t","g","r","e","s","q","l","-","p","l","t","c","l","-">> \o ver, 150)
                     \o <<" ","#"," ","P","o","s","t","g","r","e","S","Q","L"," ">> \o ver
        all_pkgs == <<pgsql_kernel>> \o lists.repo_pkg
        Padded(list) == The({Join(List([i \in 1..Len(l) |-> pad \o l[i]]), <<"\n">>)
                             : l \in {list}, pad \in {text_pad}})
        pkg_str  == Replace(Replace(Padded(all_pkgs), <<"-","l","o","w","e","r","-","q","u","a","n","t","i","l","e"," ">>,
                                    <<"-","l","o","w","e","r","-","q","u","a","n","t","i","l","e","\n">> \o text_pad),
                            <<" ","p","g","_","i","d","k","i","t","_">>, <<"\n">> \o text_pad \o <<"p","g","_","i","d","k","i","t","_">>)
        ext_str  == Replace(Padded(lists.ext_list), <<"l","o","w","e","r","_","q","u","a","n","t","i","l","e"," ">>,
                            <<"l","o","w","e","r","_","q","u","a","n","t","i","l","e","\n">> \o text_pad)
    IN  IF header
        THEN [status  |-> "ok",
              pkg_str |-> head_pad \o <<"r","e","p","o","_","p","a","c","k","a","g","e","s",":","\n">> \o pkg_str,
              ext_str |-> head_pad \o <<"p","g","_","e","x","t","e","n","s","i","o","n","s",":","\n">> \o ext_str]
        ELSE [status |-> "ok", pkg_str |-> pkg_str, ext_str |-> ext_str]

gen_param(ver, distro, indent, header) ==
    The({The({ParamOf(v, d, indent, header, lists) : lists \in {gen_ext_list(v, d)}})
         : v \in {ver}, d \in {lower(distro)}})

(***************************************************************************)
(* The constants of the page text.  A character that a TLA+ string cannot  *)
(* hold (a backquote, a character outside ASCII) is written as one element *)
(* that names its code point.                                              *)
(***************************************************************************)
\* tabulate.py line 21
LICENSE_MAP ==
    <<"P","o","s","t","g","r","e","S","Q","L">> :> <<"*","*","<","s","p","a","n"," ","c","l","a","s","s","=","\"","t","c","b","l","u","e","\"",">","P","o","s","t","g","r","e","S","Q","L","<","/","s","p","a","n",">","*","*">> @@
    <<"B","S","D"," ","0","-","C","l","a","u","s","e">> :> <<"*","*","<","s","p","a","n"," ","c","l","a","s","s","=","\"","t","c","b","l","u","e","\"",">","B","S","D","-","0","<","/","s","p","a","n",">","*","*">> @@
    <<"B","S","D"," ","2","-","C","l","a","u","s","e">> :> <<"*","*","<","s","p","a","n"," ","c","l","a","s","s","=","\"","t","c","b","l","u","e","\"",">","B","S","D","-","2","<","/","s","p","a","n",">","*","*">> @@
    <<"B","S","D"," ","3","-","C","l","a","u","s","e">> :> <<"*","*","<","s","p","a","n"," ","c","l","a","s","s","=","\"","t","c","b","l","u","e","\"",">","B","S","D","-","3","<","/","s","p","a","n",">","*","*">> @@
    <<"M","I","T">> :> <<"*","*","<","s","p","a","n"," ","c","l","a","s","s","=","\"","t","c","b","l","u","e","\"",">","M","I","T","<","/","s","p","a","n",">","*","*">> @@
    <<"I","S","C">> :> <<"*","*","<","s","p","a","n"," ","c","l","a","s","s","=","\"","t","c","b","l","u","e","\"",">","I","S","C","<","/","s","p","a","n",">","*","*">> @@
    <<"u","n","r","e","s","t","r","i","c","t","e","d">> :> <<"*","*","<","s","p","a","n"," ","c","l","a","s","s","=","\"","t","c","b","l","u","e","\"",">","P","u","b","l","i","c","<","/","s","p","a","n",">","*","*">> @@
    <<"A","r","t","i","s","t","i","c">> :> <<"*","*","<","s","p","a","n"," ","c","l","a","s","s","=","\"","t","c","c","y","a","n","\"",">","A","r","t","i","s","t","i","c","<","/","s","p","a","n",">","*","*">> @@
    <<"A","p","a","c","h","e","-","2",".","0">> :> <<"*","*","<","s","p","a","n"," ","c","l","a","s","s","=","\"","t","c","c","y","a","n","\"",">","A","p","a","c","h","e","-","2","<","/","s","p","a","n",">","*","*">> @@
    <<"M","P","L","-","2",".","0">> :> <<"*","*","<","s","p","a","n"," ","c","l","a","s","s","=","\"","t","c","c","y","a","n","\"",">","M","P","L","v","2","<","/","s","p","a","n",">","*","*">> @@
    <<"G","P","L","-","2",".","0">> :> <<"*","*","<","s","p","a","n"," ","c","l","a","s","s","=","\"","t","c","w","a","r","n","\"",">","G","P","L","v","2","<","/","s","p","a","n",">","*","*">> @@
    <<"G","P","L","-","3",".","0">> :> <<"*","*","<","s","p","a","n"," ","c","l","a","s","s","=","\"","t","c","w","a","r","n","\"",">","G","P","L","v","3","<","/","s","p","a","n",">","*","*">> @@
    <<"L","G","P","L","-","2",".","1">> :> <<"*","*","<","s","p","a","n"," ","c","l","a","s","s","=","\"","t","c","w","a","r","n","\"",">","L","G","P","L","v","2","<","/","s","p","a","n",">","*","*">> @@
    <<"L","G","P","L","-","3",".","0">> :> <<"*","*","<","s","p","a","n"," ","c","l","a","s","s","=","\"","t","c","w","a","r","n","\"",">","L","G","P","L","v","3","<","/","s","p","a","n",">","*","*">> @@
    <<"A","G","P","L","-","3",".","0">> :> <<"*","*","<","s","p","a","n"," ","c","l","a","s","s","=","\"","t","c","w","a","r","n","\"",">","A","G","P","L","v","3","<","/","s","p","a","n",">","*","*">> @@
    <<"T","i","m","e","s","c","a","l","e">> :> <<"*","*","<","s","p","a","n"," ","c","l","a","s","s","=","\"","t","c","w","a","r","n","\"",">","T","i","m","e","s","c","a","l","e","<","/","s","p","a","n",">","*","*">>

\* tabulate.py line 40
REPO_MAP ==
    <<"P","G","D","G">> :> <<"*","*","<","s","p","a","n"," ","c","l","a","s","s","=","\"","t","c","c","y","a","n","\"",">","P","G","D","G","<","/","s","p","a","n",">","*","*">> @@
    <<"P","I","G","S","T","Y">> :> <<"*","*","<","s","p","a","n"," ","c","l","a","s","s","=","\"","t","c","w","a","r","n","\"",">","P","I","G","S","T","Y","<","/","s","p","a","n",">","*","*">> @@
    <<"C","O","N","T","R","I","B">> :> <<"*","*","<","s","p","a","n"," ","c","l","a","s","s","=","\"","t","c","b","l","u","e","\"",">","C","O","N","T","R","I","B","<","/","s","p","a","n",">","*","*">> @@
    <<"W","I","L","T","O","N">> :> <<"*","*","<","s","p","a","n"," ","c","l","a","s","s","=","\"","t","c","p","u","r","p","l","e","\"",">","W","I","L","T","O","N","<","/","s","p","a","n",">","*","*">> @@
    <<"C","I","T","U","S">> :> <<"*","*","<","s","p","a","n"," ","c","l","a","s","s","=","\"","t","c","g","r","e","e","n","\"",">","C","I","T","U","S","<","/","s","p","a","n",">","*","*">> @@
    <<"T","I","M","E","S","C","A","L","E">> :> <<"*","*","<","s","p","a","n"," ","c","l","a","s","s","=","\"","t","c","w","a","r","n","\"",">","T","I","M","E","S","C","A","L","E","<","/","s","p","a","n",">","*","*">>

\* tabulate.py line 49
REPO_CHECK_COLOR ==
    <<"P","G","D","G">> :> <<"*","*","<","s","p","a","n"," ","c","l","a","s","s","=","\"","t","c","c","y","a","n","\"",">","U+2714","<","/","s","p","a","n",">","*","*">> @@
    <<"P","I","G","S","T","Y">> :> <<"*","*","<","s","p","a","n"," ","c","l","a","s","s","=","\"","t","c","w","a","r","n","\"",">","U+2714","<","/","s","p","a","n",">","*","*">> @@
    <<"C","O","N","T","R","I","B">> :> <<"*","*","<","s","p","a","n"," ","c","l","a","s","s","=","\"","t","c","b","l","u","e","\"",">","U+2714","<","/","s","p","a","n",">","*","*">> @@
    <<"W","I","L","T","O","N">> :> <<"*","*","<","s","p","a","n"," ","c","l","a","s","s","=","\"","t","c","p","u","r","p","l","e","\"",">","U+2714","<","/","s","p","a","n",">","*","*">> @@
    <<"C","I","T","U","S">> :> <<"*","*","<","s","p","a","n"," ","c","l","a","s","s","=","\"","t","c","g","r","e","e","n","\"",">","U+2714","<","/","s","p","a","n",">","*","*">> @@
    <<"T","I","M","E","S","C","A","L","E">> :> <<"*","*","<","s","p","a","n"," ","c","l","a","s","s","=","\"","t","c","w","a","r","n","\"",">","U+2714","<","/","s","p","a","n",">","*","*">>

\* tabulate.py line 58
BLUE_CHECK == <<"<","s","p","a","n"," ","c","l","a","s","s","=","\"","t","c","b","l","u","e","\"",">","U+2714","<","/","s","p","a","n",">">>

\* tabulate.py line 59
WARN_CHECK == <<"<","s","p","a","n"," ","c","l","a","s","s","=","\"","t","c","w","a","r","n","\"",">","U+2714","<","/","s","p","a","n",">">>

\* tabulate.py line 60
WARN_CROSS == <<"<","s","p","a","n"," ","c","l","a","s","s","=","\"","t","c","w","a","r","n","\"",">","U+2718","<","/","s","p","a","n",">">>

\* tabulate.py line 61
RED_CROSS == <<"<","s","p","a","n"," ","c","l","a","s","s","=","\"","t","c","r","e","d","\"",">","U+2718","<","/","s","p","a","n",">">>

\* tabulate.py line 62
RED_EXCLAM == <<"<","s","p","a","n"," ","c","l","a","s","s","=","\"","t","c","r","e","d","\"",">","U+2757","<","/","s","p","a","n",">">>

\* tabulate.py line 78
DISTRO_FULLNAME ==
    <<"e","l","7">> :> <<"R","H","E","L"," ","7"," ","C","o","m","p","a","t","i","b","l","e">> @@
    <<"e","l","8">> :> <<"R","H","E","L"," ","8"," ","C","o","m","p","a","t","i","b","l","e">> @@
    <<"e","l","9">> :> <<"R","H","E","L"," ","9"," ","C","o","m","p","a","t","i","b","l","e">> @@
    <<"u","2","4">> :> <<"U","b","u","n","t","u"," ","2","4",".","0","4"," ","n","o","b","l","e"," ","C","o","m","p","a","t","i","b","l","e">> @@
    <<"u","2","2">> :> <<"U","b","u","n","t","u"," ","2","4",".","0","4"," ","j","a","m","m","y"," ","C","o","m","p","a","t","i","b","l","e">> @@
    <<"u","2","0">> :> <<"U","b","u","n","t","u"," ","2","4",".","0","4"," ","f","o","c","a","l"," ","C","o","m","p","a","t","i","b","l","e">> @@
    <<"d","1","2">> :> <<"D","e","b","i","a","n"," ","1","2"," ","b","o","o","k","w","o","r","m"," ","C","o","m","p","a","t","i","b","l","e">> @@
    <<"d","1","1">> :> <<"U","b","u","n","t","u"," ","1","1"," ","b","u","l","l","s","e","y","e"," ","C","o","m","p","a","t","i","b","l","e">>

\* tabulate.py line 89
CATES ==
    <<"T","I","M","E">> :> <<"T","I","M","E",":"," ","T","i","m","e","s","c","a","l","e","D","B",","," ","V","e","r","s","i","o","n","i","n","g"," ","&"," ","T","e","m","p","o","r","a","l"," ","T","a","b","l","e",","," ","C","r","o","n","t","a","b",","," ","A","s","y","n","c"," ","&"," ","B","a","c","k","g","r","o","u","n","d"," ","J","o","b"," ","S","c","h","e","d","u","l","e","r",","," ",".",".",".">> @@
    <<"G","I","S">> :> <<"G","I","S",":"," ","G","e","o","S","p","a","t","i","a","l"," ","D","a","t","a"," ","T","y","p","e","s",","," ","O","p","e","r","a","t","o","r","s",","," ","a","n","d"," ","I","n","d","e","x","e","s",","," ","H","e","x","a","g","o","n","a","l"," ","I","n","d","e","x","i","n","g",","," ","O","G","R"," ","D","a","t","a"," ","F","D","W",","," ","G","e","o","I","P"," ","&"," ","M","o","b","i","l","i","t","y","D","B",","," ","e","t","c",".",".",".">> @@
    <<"R","A","G">> :> <<"R","A","G",":"," ","V","e","c","t","o","r"," ","D","a","t","a","b","a","s","e"," ","w","i","t","h"," ","I","V","F","F","L","A","T",","," ","H","N","S","W",","," ","D","i","s","k","A","N","N"," ","I","n","d","e","x","e","s",","," ","A","I"," ","&"," ","M","L"," ","i","n"," ","S","Q","L"," ","i","n","t","e","r","f","a","c","e",","," ","S","i","m","i","l","a","r","i","t","y"," ","F","u","n","c","s",","," ","e","t","c",".",".","."," ">> @@
    <<"F","T","S">> :> <<"F","T","S",":"," ","E","l","a","s","t","i","c","S","e","a","r","c","h"," ","A","l","t","e","r","n","a","t","i","v","e"," ","w","i","t","h"," ","B","M","2","5",","," ","2","-","g","r","a","m","/","3","-","g","r","a","m"," ","F","u","z","z","y"," ","S","e","a","r","c","h",","," ","Z","h","p","a","r","s","e","r"," ","&"," ","H","u","n","s","p","e","l","l"," ","S","e","g","r","e","g","a","t","i","o","n"," ","D","i","c","t","s",","," ","e","t","c",".",".",".">> @@
    <<"O","L","A","P">> :> <<"O","L","A","P",":"," ","D","u","c","k","D","B"," ","I","n","t","e","g","r","a","t","i","o","n"," ","w","i","t","h"," ","F","D","W"," ","&"," ","P","G"," ","L","a","k","e","h","o","u","s","e",","," ","A","c","c","e","s","s"," ","P","a","r","q","u","e","t"," ","f","r","o","m"," ","F","i","l","e","/","S","3",","," ","S","h","a","r","d","i","n","g"," ","w","i","t","h"," ","C","i","t","u","s","/","P","a","r","t","m","a","n","/","P","l","P","r","o","x","y",","," ",".",".",".">> @@
    <<"F","E","A","T">> :> <<"F","E","A","T",":"," ","O","p","e","n","C","y","p","h","e","r"," ","w","i","t","h"," ","A","G","E",","," ","G","r","a","p","h","Q","L",","," ","J","s","o","n","S","c","h","e","m","a",","," ","H","i","n","t","s"," ","&"," ","H","y","p","o"," ","I","n","d","e","x",","," ","H","L","L",","," ","R","u","m",","," ","I","V","M",","," ","C","h","e","m","R","D","K","i","t",","," ","a","n","d"," ","M","e","s","s","a","g","e"," ","Q","u","e","u","e","s",",",".",".",".">> @@
    <<"L","A","N","G">> :> <<"L","A","N","G",":"," ","D","e","v","e","l","o","p",","," ","T","e","s","t",","," ","P","a","c","k","a","g","e",","," ","a","n","d"," ","D","e","l","i","v","e","r"," ","S","t","o","r","e","d"," ","P","r","o","c","e","d","u","r","e","s"," ","w","r","i","t","t","e","n"," ","i","n"," ","v","a","r","i","o","u","s"," ","P","L","/","L","a","n","a","g","u","a","g","e","s",":"," ","J","a","v","a",","," ","J","s",","," ","L","u","a",","," ","R",","," ","S","h",","," ","P","R","Q","L",","," ",".",".",".">> @@
    <<"T","Y","P","E">> :> <<"T","Y","P","E",":"," ","D","e","d","i","c","a","t","e"," ","N","e","w"," ","D","a","t","a"," ","T","y","p","e","s"," ","L","i","k","e",":"," ","p","r","e","f","i","x",","," ","s","e","m","b","e","r",","," ","u","i","n","t",","," ","S","I","U","n","i","t",","," ","R","o","a","r","i","n","g","B","i","t","m","a","p",","," ","R","a","t","i","o","n","a","l",","," ","S","p","h","e","r","e",","," ","H","a","s","h",","," ","R","R","u","l","e",","," ","a","n","d"," ","m","o","r","e",".",".",".">> @@
    <<"F","U","N","C">> :> <<"F","U","N","C",":"," ","F","u","n","c","t","i","o","n","a","l","i","t","y"," ","s","u","c","h"," ","a","s"," ","s","y","n","c","/","a","s","y","n","c"," ","H","T","T","P",","," ","G","Z","I","P",","," ","J","W","T",","," ","S","a","l","t","e","d","H","a","s","h",","," ","E","x","t","r","a"," ","W","i","n","d","o","w"," ","A","g","g","s",","," ","P","C","R","E",","," ","I","C","U",","," ","I","D"," ","&"," ","R","a","n","d"," ","G","e","n","e","r","a","t","o","r",","," ","e","t","c",".",".",".">> @@
    <<"A","D","M","I","N">> :> <<"A","D","M","I","N",":"," ","U","t","i","l","i","t","i","e","s"," ","f","o","r"," ","B","l","o","a","t"," ","C","o","n","t","r","o","l",","," ","D","i","r","t","y","R","e","a","d",","," ","B","u","f","f","e","r","I","n","s","p","e","c","t",","," ","D","D","L"," ","G","e","n","e","r","a","t","e",","," ","C","h","e","c","k","s","u","m","V","e","r","i","f","y",","," ","P","e","r","m","i","s","s","i","o","n",","," ","P","r","i","o","r","i","t","y",","," ","C","a","t","a","l","o","g",",",".",".",".">> @@
    <<"S","T","A","T">> :> <<"S","T","A","T",":"," ","O","b","s","e","r","v","a","b","i","l","i","t","y"," ","C","a","t","a","l","o","g","s",","," ","M","o","n","i","t","o","r","i","n","g"," ","M","e","t","r","i","c","s"," ","&"," ","V","i","e","w","s",","," ","S","t","a","t","i","s","t","i","c","s",","," ","Q","u","e","r","y"," ","P","l","a","n","s",","," ","W","a","i","t","S","a","m","p","l","i","n","g",","," ","S","l","o","w","L","o","g","s",","," ","a","n","d"," ","e","t","c",".",".",".">> @@
    <<"S","E","C">> :> <<"S","E","C",":"," ","A","u","d","i","t","i","n","g"," ","L","o","g","s",","," ","E","n","f","o","r","c","e"," ","P","a","s","s","w","o","r","d","s",","," ","K","e","e","p"," ","S","e","c","r","e","t","s",","," ","T","D","E",","," ","S","M"," ","A","l","g","o","r","i","t","h","m",","," ","L","o","g","i","n"," ","H","o","o","k","s",","," ","L","o","g"," ","E","r","r","o","s",","," ","E","x","t","e","n","s","i","o","n"," ","W","h","i","t","e"," ","L","i","s","t",","," ",".",".",".">> @@
    <<"F","D","W">> :> <<"F","D","W",":"," ","W","r","a","p","p","e","r","s"," ","&"," ","M","u","l","t","i","c","o","r","n"," ","f","o","r"," ","F","D","W"," ","D","e","v","e","l","o","p","m","e","n","t",","," ","A","c","c","e","s","s"," ","o","t","h","e","r"," ","D","B","M","S",":"," ","M","y","S","Q","L",","," ","M","o","n","g","o",","," ","S","Q","L","i","t","e",","," ","M","S","S","Q","L",","," ","O","r","a","c","l","e",","," ","H","D","F","S",","," ","D","B","2",",",".",".",".">> @@
    <<"S","I","M">> :> <<"S","I","M",":"," ","P","r","o","t","o","c","o","l"," ","S","i","m","u","l","a","t","i","o","n"," ","&"," ","h","e","t","e","r","o","g","e","n","e","o","u","s"," ","D","B","M","S"," ","C","o","m","p","a","t","i","b","i","l","i","t","y",":"," ","O","r","a","c","l","e",","," ","M","S","S","Q","L",","," ","D","B","2",","," ","M","y","S","Q","L",","," ","M","e","m","c","a","c","h","e","d",","," ","a","n","d"," ","B","a","b","e","l","f","i","s","h","!">> @@
    <<"E","T","L">> :> <<"E","T","L",":"," ","L","o","g","i","c","a","l"," ","R","e","p","l","i","c","a","t","i","o","n",","," ","D","e","c","o","d","i","n","g",","," ","C","D","C"," ","i","n"," ","p","r","o","t","o","b","u","f","/","J","S","O","N","/","M","o","n","g","o"," ","f","o","r","m","a","t",","," ","C","o","p","y"," ","&"," ","L","o","a","d"," ","&"," ","C","o","m","p","a","r","e"," ","P","o","s","t","g","r","e","s"," ","D","a","t","a","b","a","s","e","s",",",".",".",".">>

\* tabulate.py line 107
CATE_LIST ==
    <<<<"T","I","M","E">>, <<"G","I","S">>, <<"R","A","G">>, <<"F","T","S">>, <<"O","L","A","P">>, <<"F","E","A","T">>, <<"L","A","N","G">>, <<"T","Y","P","E">>, <<"F","U","N","C">>, <<"A","D","M","I","N">>, <<"S","T","A","T">>, <<"S","E","C">>, <<"F","D","W">>, <<"S","I","M">>, <<"E","T","L">>>>

\* header and center of the column descriptors the pages use
COLS ==
    "id" :> [header |-> <<"I","D">>, center |-> TRUE] @@
    "name" :> [header |-> <<"n","a","m","e">>, center |-> TRUE] @@
    "category" :> [header |-> <<"c","a","t","e","g","o","r","y">>, center |-> TRUE] @@
    "url" :> [header |-> <<"u","r","l">>, center |-> TRUE] @@
    "license" :> [header |-> <<"l","i","c","e","n","s","e">>, center |-> TRUE] @@
    "version" :> [header |-> <<"v","e","r","s","i","o","n">>, center |-> TRUE] @@
    "repo" :> [header |-> <<"r","e","p","o">>, center |-> TRUE] @@
    "lang" :> [header |-> <<"l","a","n","g">>, center |-> TRUE] @@
    "utility" :> [header |-> <<"u","t","i","l","i","t","y">>, center |-> TRUE] @@
    "lead" :> [header |-> <<"l","e","a","d">>, center |-> TRUE] @@
    "has_solib" :> [header |-> <<"h","a","s","_","s","o","l","i","b">>, center |-> TRUE] @@
    "need_ddl" :> [header |-> <<"n","e","e","d","_","d","d","l">>, center |-> TRUE] @@
    "need_load" :> [header |-> <<"n","e","e","d","_","l","o","a","d">>, center |-> TRUE] @@
    "trusted" :> [header |-> <<"t","r","u","s","t","e","d">>, center |-> TRUE] @@
    "relocatable" :> [header |-> <<"r","e","l","o","c","a","t","a","b","l","e">>, center |-> TRUE] @@
    "rpm_ver" :> [header |-> <<"r","p","m","_","v","e","r">>, center |-> TRUE] @@
    "rpm_repo" :> [header |-> <<"r","p","m","_","r","e","p","o">>, center |-> TRUE] @@
    "rpm_pkg" :> [header |-> <<"r","p","m","_","p","k","g">>, center |-> TRUE] @@
    "deb_ver" :> [header |-> <<"d","e","b","_","v","e","r">>, center |-> TRUE] @@
    "deb_repo" :> [header |-> <<"d","e","b","_","r","e","p","o">>, center |-> TRUE] @@
    "deb_pkg" :> [header |-> <<"d","e","b","_","p","k","g">>, center |-> TRUE] @@
    "zh_desc" :> [header |-> <<"U+8BF4","U+660E">>, center |-> FALSE] @@
    "alias" :> [header |-> <<"a","l","i","a","s">>, center |-> TRUE] @@
    "en_desc" :> [header |-> <<"D","e","s","c","r","i","p","t","i","o","n">>, center |-> FALSE] @@
    "comment" :> [header |-> <<"C","o","m","m","e","n","t">>, center |-> FALSE] @@
    "ext" :> [header |-> <<"E","x","t","e","n","s","i","o","n">>, center |-> FALSE] @@
    "ext2" :> [header |-> <<"E","x","t","e","n","s","i","o","n">>, center |-> FALSE] @@
    "ext3" :> [header |-> <<"E","x","t","e","n","s","i","o","n">>, center |-> FALSE] @@
    "ext4" :> [header |-> <<"E","x","t","e","n","s","i","o","n">>, center |-> FALSE] @@
    "link" :> [header |-> <<"W","e","b","s","i","t","e">>, center |-> TRUE] @@
    "pkg" :> [header |-> <<"P","a","c","k","a","g","e">>, center |-> FALSE] @@
    "pkg2" :> [header |-> <<"P","a","c","k","a","g","e">>, center |-> FALSE] @@
    "pkg3" :> [header |-> <<"A","l","i","a","s">>, center |-> FALSE] @@
    "ver" :> [header |-> <<"V","e","r","s","i","o","n">>, center |-> TRUE] @@
    "rpmver" :> [header |-> <<"V","e","r","s","i","o","n">>, center |-> FALSE] @@
    "debver" :> [header |-> <<"V","e","r","s","i","o","n">>, center |-> FALSE] @@
    "cat" :> [header |-> <<"C","a","t","e","g","o","r","y">>, center |-> TRUE] @@
    "lic" :> [header |-> <<"L","i","c","e","n","s","e">>, center |-> TRUE] @@
    "lan" :> [header |-> <<"P","L">>, center |-> TRUE] @@
    "rpmrepo" :> [header |-> <<"R","P","M">>, center |-> TRUE] @@
    "rpmrepo2" :> [header |-> <<"R","E","P","O">>, center |-> TRUE] @@
    "debrepo" :> [header |-> <<"D","E","B">>, center |-> TRUE] @@
    "debrepo2" :> [header |-> <<"R","E","P","O">>, center |-> TRUE] @@
    "rpmpkg" :> [header |-> <<"R","P","M"," ","P","a","c","k","a","g","e">>, center |-> FALSE] @@
    "debpkg" :> [header |-> <<"D","E","B"," ","P","a","c","k","a","g","e">>, center |-> FALSE] @@
    "rpmpkg2" :> [header |-> <<"P","a","c","k","a","g","e"," ","P","a","t","t","e","r","n">>, center |-> FALSE] @@
    "debpkg2" :> [header |-> <<"P","a","c","k","a","g","e"," ","P","a","t","t","e","r","n">>, center |-> FALSE] @@
    "rpmpkg3" :> [header |-> <<"R","P","M"," ","P","a","c","k","a","g","e">>, center |-> FALSE] @@
    "debpkg3" :> [header |-> <<"D","E","B"," ","P","a","c","k","a","g","e">>, center |-> FALSE] @@
    "r17" :> [header |-> <<"1","7">>, center |-> TRUE] @@
    "r16" :> [header |-> <<"1","6">>, center |-> TRUE] @@
    "r15" :> [header |-> <<"1","5">>, center |-> TRUE] @@
    "r14" :> [header |-> <<"1","4">>, center |-> TRUE] @@
    "r13" :> [header |-> <<"1","3">>, center |-> TRUE] @@
    "r12" :> [header |-> <<"1","2">>, center |-> TRUE] @@
    "d17" :> [header |-> <<"1","7">>, center |-> TRUE] @@
    "d16" :> [header |-> <<"1","6">>, center |-> TRUE] @@
    "d15" :> [header |-> <<"1","5">>, center |-> TRUE] @@
    "d14" :> [header |-> <<"1","4">>, center |-> TRUE] @@
    "d13" :> [header |-> <<"1","3">>, center |-> TRUE] @@
    "d12" :> [header |-> <<"1","2">>, center |-> TRUE] @@
    "bin" :> [header |-> <<"U+0060","B","i","n","U+0060">>, center |-> TRUE] @@
    "load" :> [header |-> <<"U+0060","L","O","A","D","U+0060">>, center |-> TRUE] @@
    "ddl" :> [header |-> <<"U+0060","D","D","L","U+0060">>, center |-> TRUE] @@
    "trust" :> [header |-> <<"U+0060","T","R","U","S","T","U+0060">>, center |-> TRUE] @@
    "reloc" :> [header |-> <<"U+0060","R","E","L","O","C","U+0060">>, center |-> TRUE] @@
    "dylib" :> [header |-> <<"U+0060","D","Y","L","I","B","U+0060">>, center |-> TRUE] @@
    "distro" :> [header |-> <<"O","S">>, center |-> TRUE] @@
    "req" :> [header |-> <<"R","e","q","u","i","r","e","s">>, center |-> FALSE] @@
    "reqd" :> [header |-> <<"R","e","q","u","i","r","e","d"," ","b","y">>, center |-> FALSE] @@
    "tag" :> [header |-> <<"T","a","g","s">>, center |-> FALSE] @@
    "schema" :> [header |-> <<"S","c","h","e","m","a","s">>, center |-> FALSE] @@
    "rpmdep" :> [header |-> <<"D","e","p","e","n","d","e","n","c","y">>, center |-> FALSE] @@
    "debdep" :> [header |-> <<"D","e","p","e","n","d","e","n","c","y">>, center |-> FALSE]

\* d.get(key, default) for a dict d
Get(d, key, default) == IF key \in DOMAIN d THEN d[key] ELSE default

\* REPO_CHECK_COLOR.get(repo, BLUE_CHECK) if ver in pg else ''
CheckIf(ver, pg, repo) ==
    IF In(ver, pg) THEN Get(REPO_CHECK_COLOR, repo, BLUE_CHECK) ELSE <<>>

\* '' if b is None else (yes if b else no)
TriCell(b, yes, no) == IF b = "None" THEN <<>> ELSE IF b = "True" THEN yes ELSE no

\* ['`%s`' % e for e in list]
Ticked(list) == List([i \in 1..Len(list) |-> <<"U+0060">> \o list[i] \o <<"U+0060">>])

\* '[%s](%s)' % (text, target)
Link(text, target) == <<"[">> \o text \o <<"]","(">> \o target \o <<")">>

\* str(b) for a True / False / None column
PyStr(b) == IF b = "True" THEN <<"T","r","u","e">> ELSE IF b = "False" THEN <<"F","a","l","s","e">> ELSE <<"N","o","n","e">>

\* whether COLS[col]['func'](row) raises: the function of "relocatable"
\* reads row['relocatabl'], a key no row has (KeyError)
ColumnRaises(col) == col = "relocatable"

\* getcol(col, ext): COLS[col]['func'](ext), for the columns that print a
\* scalar field and the columns the pages use; the function of
\* "relocatable" returns nothing (ColumnRaises)
getcol(col, row) ==
    CASE col = "id"       -> str(row.id)
      [] col = "name" -> row.name
      [] col = "category" -> row.category
      [] col = "url" -> row.url
      [] col = "license" -> row.license
      [] col = "version" -> row.version
      [] col = "repo" -> row.repo
      [] col = "lang" -> row.lang
      [] col = "utility" -> PyStr(row.utility)
      [] col = "lead" -> PyStr(row.lead)
      [] col = "has_solib" -> PyStr(row.has_solib)
      [] col = "need_ddl" -> PyStr(row.need_ddl)
      [] col = "need_load" -> PyStr(row.need_load)
      [] col = "trusted" -> PyStr(row.trusted)
      [] col = "rpm_ver" -> row.rpm_ver
      [] col = "rpm_repo" -> row.rpm_repo
      [] col = "rpm_pkg" -> row.rpm_pkg
      [] col = "deb_ver" -> row.deb_ver
      [] col = "deb_repo" -> row.deb_repo
      [] col = "deb_pkg" -> row.deb_pkg
      [] col = "zh_desc"  -> row.zh_desc
      [] col = "alias"    -> row.alias
      [] col = "en_desc"  -> row.en_desc
      [] col = "comment"  -> row.comment
      [] col = "ext"      -> Link(row.name, row.url)
      [] col = "ext2"     -> row.name
      [] col = "ext3"     -> Link(row.name, <<"/">> \o row.name)
      [] col = "ext4"     -> Link(<<"U+0060">> \o row.name \o <<"U+0060">>, <<"/">> \o row.name)
      [] col = "link"     -> Link(<<"L","I","N","K">>, row.url)
      [] col = "pkg"      -> Link(row.alias, <<"/">> \o row.name)
      [] col = "pkg2"     -> Link(row.alias, row.url)
      [] col = "pkg3"     -> Link(row.alias, <<"/">> \o row.name)
      [] col = "ver"      -> row.version
      [] col = "rpmver"   -> row.rpm_ver
      [] col = "debver"   -> row.deb_ver
      [] col = "cat"      -> Link(row.category, <<"/">> \o lower(row.category))
      [] col = "lic"      -> Get(LICENSE_MAP, row.license, row.license)
      [] col = "lan"      -> IF Len(row.lang) = 0 THEN <<>>
                             ELSE <<"U+0060">> \o row.lang \o <<"U+0060">>
      [] col = "rpmrepo"  -> Get(REPO_MAP, row.rpm_repo, row.rpm_repo)
      [] col = "rpmrepo2" -> Get(REPO_MAP, row.rpm_repo, row.rpm_repo)
      [] col = "debrepo"  -> Get(REPO_MAP, row.deb_repo, row.deb_repo)
      [] col = "debrepo2" -> Get(REPO_MAP, row.deb_repo, row.deb_repo)
      [] col = "rpmpkg"   -> <<"U+0060">> \o row.rpm_pkg \o <<"U+0060">>
      [] col = "debpkg"   -> <<"U+0060">> \o row.deb_pkg \o <<"U+0060">>
      [] col = "rpmpkg2"  -> <<"U+0060">> \o row.rpm_pkg \o <<"U+0060">>
      [] col = "debpkg2"  -> <<"U+0060">> \o row.deb_pkg \o <<"U+0060">>
      [] col = "rpmpkg3"  -> Join(Ticked(Split(row.rpm_pkg, " ")), <<"<","b","r",">">>)
      [] col = "debpkg3"  -> Join(Ticked(Split(row.deb_pkg, " ")), <<"<","b","r",">">>)
      [] col = "r17"      -> CheckIf(<<"1","7">>, row.rpm_pg, row.rpm_repo)
      [] col = "r16"      -> CheckIf(<<"1","6">>, row.rpm_pg, row.rpm_repo)
      [] col = "r15"      -> CheckIf(<<"1","5">>, row.rpm_pg, row.rpm_repo)
      [] col = "r14"      -> CheckIf(<<"1","4">>, row.rpm_pg, row.rpm_repo)
      [] col = "r13"      -> CheckIf(<<"1","3">>, row.rpm_pg, row.rpm_repo)
      [] col = "r12"      -> CheckIf(<<"1","2">>, row.rpm_pg, row.rpm_repo)
      [] col = "d17"      -> CheckIf(<<"1","7">>, row.deb_pg, row.deb_repo)
      [] col = "d16"      -> CheckIf(<<"1","6">>, row.deb_pg, row.deb_repo)
      [] col = "d15"      -> CheckIf(<<"1","5">>, row.deb_pg, row.deb_repo)
      [] col = "d14"      -> CheckIf(<<"1","4">>, row.deb_pg, row.deb_repo)
      [] col = "d13"      -> CheckIf(<<"1","3">>, row.deb_pg, row.deb_repo)
      [] col = "d12"      -> CheckIf(<<"1","2">>, row.deb_pg, row.deb_repo)
      [] col = "bin"      -> IF Truthy(row.utility)
                             THEN Get(REPO_CHECK_COLOR, row.deb_repo, BLUE_CHECK)
                             ELSE <<>>
      [] col = "load"     -> TriCell(row.need_load, RED_EXCLAM, <<>>)
      [] col = "ddl"      -> TriCell(row.need_ddl, BLUE_CHECK, WARN_CROSS)
      [] col = "trust"    -> TriCell(row.trusted, BLUE_CHECK, WARN_CROSS)
      [] col = "reloc"    -> TriCell(row.relocatable, BLUE_CHECK, WARN_CROSS)
      [] col = "dylib"    -> TriCell(row.has_solib, BLUE_CHECK, WARN_CROSS)
      [] col = "distro"   -> <<"D","i","s","t","r","o","-">> \o row.name
      [] col = "req"      -> Join(List([i \in 1..Len(row.requires) |->
                                      Link(<<"U+0060">> \o row.requires[i] \o <<"U+0060">>,
                                           row.requires[i])]), <<","," ">>)
      [] col = "reqd"     -> IF row.name \in DOMAIN DEP_MAP
                             THEN Join(List([i \in 1..Len(DEP_MAP[row.name]) |->
                                           Link(<<"U+0060">> \o DEP_MAP[row.name][i] \o <<"U+0060">>,
                                                <<"/">> \o DEP_MAP[row.name][i])]), <<","," ">>)
                             ELSE <<>>
      [] col = "tag"      -> Join(Ticked(row.tags), <<","," ">>)
      [] col = "schema"   -> Join(Ticked(row.schemas), <<","," ">>)
      [] col = "rpmdep"   -> Join(Ticked(row.rpm_deps), <<","," ">>)
      [] col = "debdep"   -> Join(Ticked(row.deb_deps), <<","," ">>)

(***************************************************************************)
(* tabulate, tabulate_stats, avail_matrix, cate_index_tabulate.            *)
(***************************************************************************)
\* the rows a filter_func is applied to
Rows == {DATA[i] : i \in 1..Len(DATA)}

\* [row for row in DATA if filter_func(row)]
Filtered(filter_func) ==
    SelectIdx(DATA, {i \in 1..Len(DATA) : filter_func[DATA[i]]}, 1)

\* "| " + " | ".join(cells) + " |\n"
TableLine(cells) == <<"|"," ">> \o Join(cells, <<" ","|"," ">>) \o <<" ","|","\n">>

\* the header line, the separator line and one line per row of rows
TableOf(cols, rows) ==
    LET headers   == TableLine(List([c \in 1..Len(cols) |-> COLS[cols[c]].header]))
        separator == <<"|">> \o Join(List([c \in 1..Len(cols) |->
                         IF COLS[cols[c]].center
                         THEN <<":">> \o Times(<<"-">>, Len(COLS[cols[c]].header)) \o <<":">>
                         ELSE Times(<<"-">>, Len(COLS[cols[c]].header) + 2)]), <<"|">>)
                     \o <<"|","\n">>
        row_str(row) == TableLine(List([c \in 1..Len(cols) |-> getcol(cols[c], row)]))
    IN  headers \o separator \o Extend(List([i \in 1..Len(rows) |-> row_str(rows[i])]))

tabulate(cols, filter_func) ==
    The({(TableOf(cols, rows)) : rows \in {Filtered(filter_func)}})

\* a call of tabulate: the table, or the KeyError of the first column
\* function that raises, which is called once a row passes the filter
TabulateCall(cols, filter_func) ==
    IF Filtered(filter_func) # <<>> /\ \E c \in 1..Len(cols) : ColumnRaises(cols[c])
    THEN [status |-> "KeyError", text |-> <<>>]
    ELSE [status |-> "ok", text |-> tabulate(cols, filter_func)]

get_markdown_table(header, data) ==
    LET headers   == TableLine(header)
        separator == <<"|">> \o Join(List([h \in 1..Len(header) |->
                         <<":">> \o Times(<<"-">>, Len(header[h])) \o <<":">>]), <<"|">>)
                     \o <<"|","\n">>
    IN  headers \o separator \o Extend(List([i \in 1..Len(data) |-> TableLine(data[i])]))

StatEntries ==
    "rpm_ext" :> <<"R","P","M"," ","E","x","t","e","n","s","i","o","n">> @@ "deb_ext" :> <<"D","E","B"," ","E","x","t","e","n","s","i","o","n">> @@
    "rpm_pkg" :> <<"R","P","M"," ","P","a","c","k","a","g","e">> @@ "deb_pkg" :> <<"D","E","B"," ","P","a","c","k","a","g","e">>

StatFilters ==
    <<"all", "pgdg", "pigsty", "contrib", "misc", "miss",
      "pg17", "pg16", "pg15", "pg14", "pg13", "pg12">>

StatHeaders ==
    <<<<"E","n","t","r","y"," ","/"," ","F","i","l","t","e","r">>, <<"A","l","l">>, <<"P","G","D","G">>, <<"P","I","G","S","T","Y">>, <<"C","O","N","T","R","I","B">>, <<"M","I","S","C">>, <<"M","I","S","S">>,
      <<"P","G","1","7">>, <<"P","G","1","6">>, <<"P","G","1","5">>, <<"P","G","1","4">>, <<"P","G","1","3">>, <<"P","G","1","2">>>>

tabulate_stats(todolist) ==
    LET row(key) == <<StatEntries[key]>> \o
                    List([f \in 1..Len(StatFilters) |-> str(STAT[key][StatFilters[f]])])
    IN  <<"|">> \o Join(StatHeaders, <<" ","|"," ">>) \o <<"|","\n">>
        \o <<"|">> \o Join(List([h \in 1..Len(StatHeaders) |-> <<":","-","-","-","-",":">>]), <<"|">>) \o <<"|","\n">>
        \o Extend(List([t \in 1..Len(todolist) |->
                      <<"|"," ">> \o Join(row(todolist[t]), <<" ","|"," ">>) \o <<" ","|","\n">>]))

\* the status of calls made one after another: "ok", or the exception of the
\* first call that raised
StatusOf(results) ==
    LET bad == {i \in 1..Len(results) : results[i].status # "ok"}
    IN  IF bad = {} THEN "ok"
        ELSE results[CHOOSE i \in bad : \A j \in bad : i <= j].status

\* what a function that builds a text returns, or the exception it raised
Text(status, text) == [status |-> status, text |-> text]

\* avail_matrix after its calls of judge_ext: judged[d][v] is the result for
\* DISTROS[d] and PG_VERS[v]
MatrixOf(ext, cell, judged) ==
    LET Entry(j) ==
            IF cell = "avail"
            THEN IF j.extension # ext.alias THEN WARN_CHECK
                 ELSE IF j.avail THEN BLUE_CHECK ELSE RED_CROSS
            ELSE IF cell = "pkg"
            THEN IF j.avail
                 THEN Join(Ticked(Split(j.package, " ")), <<"<","b","r",">">>)
                 ELSE RED_CROSS
            ELSE IF j.avail THEN <<"U+0060">> \o j.extension \o <<"U+0060">> ELSE RED_CROSS
        header == <<<<"D","i","s","t","r","o"," ","/"," ","V","e","r">>, <<"P","G","1","7">>, <<"P","G","1","6">>, <<"P","G","1","5">>, <<"P","G","1","4">>, <<"P","G","1","3">>,
                    <<"P","G","1","2">>>>
        data   == List([d \in 1..Len(DISTROS) |->
                      <<<<"U+0060">> \o DISTROS[d] \o <<"U+0060">>>> \o
                      List([v \in 1..Len(PG_VERS) |-> Entry(judged[d][v])])])
    IN  Text(StatusOf(Extend(judged)), get_markdown_table(header, data))

avail_matrix(extname, cell) ==
    The({(MatrixOf(EXT_MAP[extname], cell, judged))
         : judged \in {List([d \in 1..Len(DISTROS) |->
                  List([v \in 1..Len(PG_VERS) |->
                           judge_ext(PG_VERS[v], DISTROS[d], EXT_MAP[extname])])])}})

\* ' '.join of the ext4 links of the rows of category cate
CateLinks(cate, sep) ==
    LET exts == Filtered([row \in Rows |-> row.category = cate])
    IN  Join(List([i \in 1..Len(exts) |-> getcol("ext4", exts[i])]), sep)

cate_index_tabulate ==
    Join(List([c \in 1..Len(CATE) |->
             <<"[","*","*">> \o CATE[c] \o <<"*","*","]","(","/">> \o lower(CATE[c]) \o <<")">> \o <<":"," ">>
             \o CateLinks(CATE[c], <<" ">>)]), <<"\n">>)

(***************************************************************************)
(* The generate_* functions.  Each gives the file it writes with the       *)
(* arguments it fills into the file's template (the templates are read     *)
(* from the stub directory), or the exception it raised.                   *)
(***************************************************************************)
Doc(status, file, args) == [status |-> status, file |-> file, args |-> args]

generate_readme ==
    Doc("ok", <<"R","E","A","D","M","E",".","m","d">>,
        <<Len(DATA), Len(DATA), Len(DATA),
          tabulate_stats(<<"rpm_ext", "deb_ext">>), cate_index_tabulate>>)

\* gen_param(ver, distro, -1, False) for ver in PG_VERS, for distro in distros
Params(distros) ==
    List([v \in 1..Len(PG_VERS) |->
             List([d \in 1..Len(distros) |->
                      gen_param(PG_VERS[v], distros[d], -1, FALSE)])])

\* '\n'.join(ver_sections) from the gen_param results params[v][d]; which
\* names the string of the pair that the section shows
SectionsOf(distros, params, which) ==
    LET section(v) ==
            Join(<<<<"-","-","-","-","-","-","-","-","\n","\n","#","#"," ","P","o","s","t","g","r","e","S","Q","L"," ">> \o PG_VERS[v] \o <<"\n","\n">>>> \o
                 List([d \in 1..Len(distros) |->
                     <<"#","#","#"," ">> \o Get(DISTRO_FULLNAME, distros[d], <<"N","o","n","e">>)
                     \o <<" ","O","S"," ","(">> \o distros[d] \o <<")","\n","\n","U+0060","U+0060","U+0060","y","a","m","l","\n">>
                     \o params[v][d][which] \o <<"\n","U+0060","U+0060","U+0060","\n">>]), <<"\n">>)
    IN  Text(StatusOf(Extend(params)),
             Join(List([v \in 1..Len(PG_VERS) |-> section(v)]), <<"\n">>))

\* the loop over PG_VERS and distros of a list page
VerSections(distros, which) ==
    The({(SectionsOf(distros, params, which)) : params \in {Params(distros)}})

AllListDoc(sections) ==
    Doc(sections.status, <<"l","i","s","t",".","m","d">>,
        <<STAT.stat.all, STAT.stat.rpm, STAT.stat.deb,
          STAT.stat.contrib, STAT.stat.non_contrib,
          tabulate_stats(<<"rpm_ext", "deb_ext">>),
          tabulate(<<"cat", "id", "ext3", "ver", "pkg", "lic", "rpmrepo", "debrepo",
                     "link", "bin", "load", "dylib", "ddl", "en_desc">>,
                   [row \in Rows |-> TRUE]),
          sections.text>>)

generate_all_list == The({AllListDoc(v) : v \in {VerSections(DISTROS, "ext_str")}})

RpmListDoc(sections) ==
    Doc(sections.status, <<"r","p","m",".","m","d">>,
        <<STAT.rpm_ext.all, STAT.rpm_ext.miss, STAT.rpm_ext.miss,
          STAT.stat.contrib, STAT.rpm_ext.pgdg, STAT.rpm_ext.pigsty,
          STAT.rpm_ext.pg16, STAT.rpm_ext.pg17,
          tabulate_stats(<<"rpm_ext", "rpm_pkg">>),
          tabulate(<<"cat", "pkg", "rpmver", "lic", "rpmrepo", "rpmpkg",
                     "r17", "r16", "r15", "r14", "r13", "r12", "en_desc">>,
                   [row \in Rows |-> row.has_rpm /\ row.repo # <<"C","O","N","T","R","I","B">>
                                /\ Truthy(row.lead)]),
          sections.text,
          <<>>>>)

generate_rpm_list == The({RpmListDoc(v)
                          : v \in {VerSections(<<<<"e","l","8">>, <<"e","l","9">>>>, "pkg_str")}})

DebListDoc(sections) ==
    Doc(sections.status, <<"d","e","b",".","m","d">>,
        <<STAT.deb_ext.all, STAT.deb_ext.miss, STAT.deb_ext.miss,
          STAT.stat.contrib, STAT.deb_ext.pgdg, STAT.deb_ext.pigsty,
          STAT.deb_ext.pg16, STAT.deb_ext.pg17,
          tabulate_stats(<<"deb_ext", "deb_pkg">>),
          tabulate(<<"cat", "pkg", "debver", "lic", "debrepo", "debpkg",
                     "d17", "d16", "d15", "d14", "d13", "d12", "en_desc">>,
                   [row \in Rows |-> row.has_deb /\ row.repo # <<"C","O","N","T","R","I","B">>
                                /\ Truthy(row.lead)]),
          sections.text,
          <<>>>>)

generate_deb_list ==
    The({DebListDoc(v) : v \in {VerSections(<<<<"d","1","2">>, <<"u","2","2">>, <<"u","2","4">>>>, "pkg_str")}})

generate_contrib_list ==
    Doc("ok", <<"c","o","n","t","r","i","b",".","m","d">>,
        <<STAT.stat.contrib,
          tabulate(<<"cat", "id", "ext2", "ver", "pkg",
                     "r17", "r16", "r15", "r14", "r13", "r12",
                     "bin", "load", "dylib", "ddl", "trust", "reloc", "en_desc">>,
                   [row \in Rows |-> row.repo = <<"C","O","N","T","R","I","B">>])>>)

\* cate_info of generate_categories for one category of CATE_LIST
CateInfo(cate) ==
    <<"\n","-","-","-","-","-","-","-","-","\n","#","#"," ","[","*","*">> \o cate \o <<"*","*","]","(","/">> \o lower(cate) \o <<")","\n",">"," ">>
    \o Get(CATES, cate, <<>>) \o <<" ","(">>
    \o str(Len(Filtered([row \in Rows |-> row.category = cate]))) \o <<" ","e","x","t","e","n","s","i","o","n","s",")">>
    \o <<"\n","\n">>
    \o tabulate(<<"id", "ext3", "ver", "pkg", "lic", "rpmrepo", "debrepo", "link",
                  "en_desc", "comment">>,
                [row \in Rows |-> row.category = cate])

generate_categories ==
    Doc("ok", <<"c","a","t","e","g","o","r","i","e","s",".","m","d">>,
        <<Len(CATE_LIST),
          Join(List([c \in 1..Len(CATE_LIST) |-> CateInfo(CATE_LIST[c])]), <<"\n">>)>>)

\* the three lists of the page of category cate from the gen_cate_ext_list
\* results lists[d][v] for DISTROS[d] and PG_VERS[v]
CateBlocks(lists) ==
    LET Block(d, which) ==
            <<"\n","#","#","#"," ">> \o Get(DISTRO_FULLNAME, DISTROS[d], DISTROS[d])
            \o <<" ","(">> \o DISTROS[d] \o <<")","\n","\n","U+0060","U+0060","U+0060","y","a","m","l","\n">>
            \o Join(List([v \in 1..Len(PG_VERS) |->
                        <<"p","g">> \o PG_VERS[v] \o <<":"," ">>
                        \o Join(lists[d][v][which], <<" ">>)]), <<"\n">>)
            \o <<"\n","U+0060","U+0060","U+0060","\n">>
        Of(keep) == Join(SelectIdx(List([d \in 1..Len(DISTROS) |-> Block(d, "repo_pkg")]),
                                   keep, 1), <<"\n">>)
    IN  [status   |-> StatusOf(Extend(lists)),
         ext_list |-> Join(List([d \in 1..Len(DISTROS) |-> Block(d, "ext_list")]), <<"\n">>),
         deb_list |-> Of({d \in 1..Len(DISTROS) : In(DISTROS[d], DEB_OS)}),
         rpm_list |-> Of({d \in 1..Len(DISTROS) :
                             ~In(DISTROS[d], DEB_OS) /\ In(DISTROS[d], RPM_OS)})]

CategoryDoc(cate, blocks) ==
    Doc(blocks.status, lower(cate) \o <<".","m","d">>,
        <<cate, Get(CATES, cate, <<>>),
          Len(Filtered([row \in Rows |-> row.category = cate])),
          CateLinks(cate, <<" ">>),
          tabulate(<<"id", "ext3", "ver", "pkg", "lic", "rpmrepo", "debrepo", "link",
                     "bin", "load", "dylib", "ddl", "en_desc">>,
                   [row \in Rows |-> row.category = cate]),
          blocks.ext_list,
          tabulate(<<"pkg", "rpmver", "lic", "rpmrepo", "rpmpkg3",
                     "r17", "r16", "r15", "r14", "r13", "r12", "en_desc">>,
                   [row \in Rows |-> row.has_rpm /\ Truthy(row.lead) /\ row.category = cate]),
          blocks.rpm_list,
          tabulate(<<"pkg", "debver", "lic", "debrepo", "debpkg3",
                     "d17", "d16", "d15", "d14", "d13", "d12", "en_desc">>,
                   [row \in Rows |-> row.has_deb /\ Truthy(row.lead) /\ row.category = cate]),
          blocks.deb_list,
          <<>>>>)

\* the body of the loop of generate_category for one category
generate_category(cate) ==
    The({(The({(CategoryDoc(cate, blocks)) : blocks \in {CateBlocks(lists)}}))
         : lists \in {List([d \in 1..Len(DISTROS) |->
                  List([v \in 1..Len(PG_VERS) |->
                           gen_cate_ext_list(PG_VERS[v], DISTROS[d], cate)])])}})

\* pigsty_install_cmd of generate_extension
PigstyInstallCmd(name, alias) ==
    IF name = <<"c","i","t","u","s">>
    THEN <<"U+0060","U+0060","U+0060","b","a","s","h","\n",".","/","p","g","s","q","l",".","y","m","l"," ","-","t"," ","p","g","_","e","x","t","e","n","s","i","o","n"," ","-","e"," ","'","{","\"","p","g","_","e","x","t","e","n","s","i","o","n","s","\"",":"," ","[","\"","c","i","t","u","s","\"","]","}","'"," "," "," "," "," ","#"," ","c","o","m","m","o","n"," ","c","a","s","e","\n",".","/","p","g","s","q","l",".","y","m","l"," ","-","t"," ","p","g","_","e","x","t","e","n","s","i","o","n"," ","-","e"," ","'","{","\"","p","g","_","e","x","t","e","n","s","i","o","n","s","\"",":"," ","[","\"","c","i","t","u","s","1","1","\"","]","}","'"," "," "," ","#"," ","p","g","1","3"," ","@"," ","d","e","b","\n",".","/","p","g","s","q","l",".","y","m","l"," ","-","t"," ","p","g","_","e","x","t","e","n","s","i","o","n"," ","-","e"," ","'","{","\"","p","g","_","e","x","t","e","n","s","i","o","n","s","\"",":"," ","[","\"","c","i","t","u","s","1","0","\"","]","}","'"," "," "," ","#"," ","p","g","1","2"," ","@"," ","d","e","b","\n","U+0060","U+0060","U+0060","\n","\n">>
    ELSE IF name = <<"p","g","a","u","d","i","t">>
    THEN <<"U+0060","U+0060","U+0060","b","a","s","h","\n",".","/","p","g","s","q","l",".","y","m","l"," ","-","t"," ","p","g","_","e","x","t","e","n","s","i","o","n"," ","-","e"," ","'","{","\"","p","g","_","e","x","t","e","n","s","i","o","n","s","\"",":"," ","[","\"","p","g","a","u","d","i","t","\"","]","}","'"," "," "," ","#"," ","c","o","m","m","o","n"," ","c","a","s","e","\n",".","/","p","g","s","q","l",".","y","m","l"," ","-","t"," ","p","g","_","e","x","t","e","n","s","i","o","n"," ","-","e"," ","'","{","\"","p","g","_","e","x","t","e","n","s","i","o","n","s","\"",":"," ","[","\"","p","g","a","u","d","i","t","1","7","\"","]","}","'"," ","#"," ","p","g","1","5"," ","@"," ","e","l","\n",".","/","p","g","s","q","l",".","y","m","l"," ","-","t"," ","p","g","_","e","x","t","e","n","s","i","o","n"," ","-","e"," ","'","{","\"","p","g","_","e","x","t","e","n","s","i","o","n","s","\"",":"," ","[","\"","p","g","a","u","d","i","t","1","6","\"","]","}","'"," ","#"," ","p","g","1","4"," ","@"," ","e","l","\n",".","/","p","g","s","q","l",".","y","m","l"," ","-","t"," ","p","g","_","e","x","t","e","n","s","i","o","n"," ","-","e"," ","'","{","\"","p","g","_","e","x","t","e","n","s","i","o","n","s","\"",":"," ","[","\"","p","g","a","u","d","i","t","1","5","\"","]","}","'"," ","#"," ","p","g","1","3"," ","@"," ","e","l","\n",".","/","p","g","s","q","l",".","y","m","l"," ","-","t"," ","p","g","_","e","x","t","e","n","s","i","o","n"," ","-","e"," ","'","{","\"","p","g","_","e","x","t","e","n","s","i","o","n","s","\"",":"," ","[","\"","p","g","a","u","d","i","t","1","4","\"","]","}","'"," ","#"," ","p","g","1","2"," ","@"," ","e","l","\n","U+0060","U+0060","U+0060","\n","\n">>
    ELSE IF name = <<"p","o","s","t","g","i","s">>
    THEN <<"U+0060","U+0060","U+0060","b","a","s","h","\n",".","/","p","g","s","q","l",".","y","m","l"," ","-","t"," ","p","g","_","e","x","t","e","n","s","i","o","n"," ","-","e"," ","'","{","\"","p","g","_","e","x","t","e","n","s","i","o","n","s","\"",":"," ","[","\"","p","o","s","t","g","i","s","\"","]","}","'"," "," "," ","#"," ","p","o","s","t","g","i","s","3","5",","," ","c","o","m","m","o","n"," ","c","a","s","e","\n",".","/","p","g","s","q","l",".","y","m","l"," ","-","t"," ","p","g","_","e","x","t","e","n","s","i","o","n"," ","-","e"," ","'","{","\"","p","g","_","e","x","t","e","n","s","i","o","n","s","\"",":"," ","[","\"","p","o","s","t","g","i","s","3","4","\"","]","}","'"," ","#"," ","p","g","1","2"," ","@"," ","e","l","8","/","9"," ","\n",".","/","p","g","s","q","l",".","y","m","l"," ","-","t"," ","p","g","_","e","x","t","e","n","s","i","o","n"," ","-","e"," ","'","{","\"","p","g","_","e","x","t","e","n","s","i","o","n","s","\"",":"," ","[","\"","p","o","s","t","g","i","s","3","3","\"","]","}","'"," ","#"," ","e","l","7","\n","U+0060","U+0060","U+0060","\n","\n">>
    ELSE <<"U+0060","U+0060","U+0060","b","a","s","h","\n",".","/","p","g","s","q","l",".","y","m","l"," ","-","t"," ","p","g","_","e","x","t","e","n","s","i","o","n"," ","-","e"," ","'","{","\"","p","g","_","e","x","t","e","n","s","i","o","n","s","\"",":"," ","[","\"">> \o alias
         \o <<"\"","]","}","'","\n","U+0060","U+0060","U+0060","\n","\n">>

\* yum_install_tmpl or apt_install_tmpl: tool is 'dnf' or 'apt', pkg the
\* package column of the family, judged the judge_ext results for the
\* versions of the family
InstallTmpl(ext, tool, pkg, judged) ==
    IF ~Contains(ext.rpm_pkg, <<"$","v">>)
    THEN Text("ok", <<"U+0060","U+0060","U+0060","b","a","s","h","\n">> \o tool \o <<" ","i","n","s","t","a","l","l"," ">> \o pkg \o <<";","\n","U+0060","U+0060","U+0060","\n","\n">>)
    ELSE Text(StatusOf(judged),
              <<"U+0060","U+0060","U+0060","b","a","s","h","\n">>
              \o Join(List([i \in 1..Len(judged) |->
                          tool \o <<" ","i","n","s","t","a","l","l"," ">> \o judged[i].package \o <<";">>]), <<"\n">>)
              \o <<"\n","U+0060","U+0060","U+0060","\n","\n">>)

\* install_tmpl of generate_extension from its yum and apt parts and the
\* package matrix
InstallOf(ext, yum, apt, matrix) ==
    Text(StatusOf(<<yum, apt, matrix>>),
         <<"\n","I","n","s","t","a","l","l"," ","U+0060">> \o getcol("alias", ext)
         \o <<"U+0060"," ","v","i","a"," ","[","P","i","g","s","t","y","]","(","h","t","t","p","s",":","/","/","p","i","g","s","t","y",".","i","o","/","d","o","c","s","/","p","g","e","x","t","/","u","s","a","g","e","/","i","n","s","t","a","l","l","/",")"," ","p","l","a","y","b","o","o","k",":","\n","\n">>
         \o PigstyInstallCmd(ext.name, ext.alias)
         \o (IF ext.has_rpm
             THEN <<"\n","I","n","s","t","a","l","l"," ","U+0060">> \o getcol("alias", ext) \o <<"U+0060"," ","[","R","P","M","]","(","/","r","p","m",")"," ","f","r","o","m"," ","t","h","e"," ">>
                  \o getcol("rpmrepo", ext) \o <<" ","*","*","Y","U","M","*","*"," ","r","e","p","o",":","\n","\n">> \o yum.text
             ELSE <<>>)
         \o (IF ext.has_deb
             THEN <<"\n","I","n","s","t","a","l","l"," ","U+0060">> \o getcol("alias", ext) \o <<"U+0060"," ","[","D","E","B","]","(","/","d","e","b",")"," ","f","r","o","m"," ","t","h","e"," ">>
                  \o getcol("rpmrepo", ext) \o <<" ","*","*","A","P","T","*","*"," ","r","e","p","o",":","\n","\n">> \o apt.text
             ELSE <<>>)
         \o <<"\n","\n","\n">> \o matrix.text)

\* install_tmpl of generate_extension
Install(ext) ==
    The({(InstallOf(ext, parts[1], parts[2], parts[3]))
         : parts \in {<<InstallTmpl(ext, <<"d","n","f">>, ext.rpm_pkg,
               List([i \in 1..Len(ext.rpm_pg) |->
                        judge_ext(ext.rpm_pg[i], <<"e","l","9">>, ext)])),
           InstallTmpl(ext, <<"a","p","t">>, ext.deb_pkg,
               List([i \in 1..Len(ext.deb_pg) |->
                        judge_ext(ext.deb_pg[i], <<"u","2","2">>, ext)])),
           avail_matrix(ext.name, "pkg")>>}})

\* ext_additional of generate_extension
ExtAdditional(ext) ==
    LET config_ini == IF Truthy(ext.need_load)
                      THEN <<"\n","U+0060","U+0060","U+0060","b","a","s","h","\n","s","h","a","r","e","d","_","p","r","e","l","o","a","d","_","l","i","b","r","a","r","i","e","s"," ","="," ","'">> \o ext.name
                           \o <<"'",";"," ","#"," ","a","d","d"," ","t","h","i","s"," ","e","x","t","e","n","s","i","o","n"," ","t","o"," ","p","o","s","t","g","r","e","s","q","l",".","c","o","n","f","\n","U+0060","U+0060","U+0060","\n">>
                      ELSE <<>>
        create_ddl == IF Truthy(ext.need_ddl)
                      THEN <<"\n","U+0060","U+0060","U+0060","s","q","l","\n","C","R","E","A","T","E"," ","E","X","T","E","N","S","I","O","N"," ">>
                           \o (IF In("-", ext.name) THEN <<"\"">> \o ext.name \o <<"\"">>
                               ELSE ext.name)
                           \o (IF Len(ext.requires) > 0 THEN <<" ","C","A","S","C","A","D","E">> ELSE <<>>)
                           \o <<";","\n","U+0060","U+0060","U+0060","\n">>
                      ELSE <<>>
        comment    == IF Len(ext.comment) > 0 THEN <<">"," ","*","*","C","o","m","m","e","n","t","*","*",":"," ">> \o ext.comment
                      ELSE <<>>
    IN  config_ini \o <<"\n","\n">> \o create_ddl \o comment

\* pkg_table of generate_extension from the two tables tabulate gave
PkgTableOf(name, rpm_table, deb_table) ==
    Replace(rpm_table, <<"D","i","s","t","r","o","-">> \o name, <<"[","R","P","M","]","(","/","r","p","m",")">>)
    \o Join(Tail(Tail(Split(Replace(deb_table, <<"D","i","s","t","r","o","-">> \o name, <<"[","D","E","B","]","(","/","d","e","b",")">>),
                            "\n"))), <<"\n">>)

PkgTable(ext) ==
    PkgTableOf(ext.name,
        tabulate(<<"distro", "rpmver", "lic", "rpmrepo2", "rpmpkg2",
                   "r17", "r16", "r15", "r14", "r13", "r12", "rpmdep">>,
                 [row \in Rows |-> row.has_rpm /\ Truthy(row.lead) /\ row.alias = ext.alias]),
        tabulate(<<"distro", "debver", "lic", "debrepo2", "debpkg2",
                   "r17", "r16", "r15", "r14", "r13", "r12", "debdep">>,
                 [row \in Rows |-> row.has_deb /\ Truthy(row.lead) /\ row.alias = ext.alias]))

\* the page of one extension from the two texts that call judge_ext, and
\* the content of its stub file ('' when there is none)
ExtensionDoc(ext, matrix, install, stub_content) ==
    Doc(StatusOf(<<matrix, install>>), ext.name \o <<".","m","d">>,
        <<<<"#"," ">> \o ext.alias \o <<"\n","\n","\n",">"," ">> \o getcol("pkg2", ext) \o <<":"," ">>
              \o ext.en_desc \o <<"\n",">","\n",">"," ">> \o ext.url \o <<"\n","\n","\n">>,
          getcol("cat", ext),
          CateLinks(ext.category, <<","," ">>),
          tabulate(<<"ext", "ver", "lic", "rpmrepo", "debrepo", "lan">>,
                   [row \in Rows |-> row.name = ext.name])
              \o <<"\n","\n","\n">>
              \o tabulate(<<"bin", "load", "dylib", "ddl", "trust", "reloc">>,
                          [row \in Rows |-> row.name = ext.name])
              \o <<"\n","\n","\n">>
              \o tabulate(<<"pkg3", "tag", "schema", "req", "reqd">>,
                          [row \in Rows |-> row.name = ext.name])
              \o <<"\n","\n","\n">> \o matrix.text,
          ExtAdditional(ext),
          PkgTable(ext),
          install.text,
          stub_content>>)

\* the body of the loop of generate_extension for one row of DATA
generate_extension(ext) ==
    The({(ExtensionDoc(ext, texts[1], texts[2],
                                     Get(stub, ext.name, <<>>)))
         : texts \in {<<avail_matrix(ext.name, "avail"), Install(ext)>>}})

(***************************************************************************)
(* The inputs: CSV rows in the shape of pigsty.csv.                        *)
(***************************************************************************)
ALL_PG == <<"{","1","7",",","1","6",",","1","5",",","1","4",",","1","3",",","1","2","}">>

\* a CSV row; the columns the catalog logic does not read get fixed values
CsvRow(id, name, alias, category, repo, lead, requires,
       rpm_repo, rpm_pkg, rpm_pg, deb_repo, deb_pkg, deb_pg) ==
    [id |-> id, name |-> name, alias |-> alias, category |-> category,
     url |-> <<"/","/","x">>, license |-> <<"M","I","T">>, tags |-> <<"{","a",",","b","}">>, version |-> <<"1",".","0">>,
     repo |-> repo, lang |-> <<"C">>, utility |-> <<"f">>, lead |-> lead,
     has_solib |-> <<"t">>, need_ddl |-> <<"t">>, need_load |-> <<"f">>, trusted |-> <<>>,
     relocatable |-> <<"f">>, schemas |-> <<>>, pg_ver |-> ALL_PG,
     requires |-> requires,
     rpm_ver |-> <<"1",".","0">>, rpm_repo |-> rpm_repo, rpm_pkg |-> rpm_pkg,
     rpm_pg |-> rpm_pg, rpm_deps |-> <<>>,
     deb_ver |-> <<"1",".","1">>, deb_repo |-> deb_repo, deb_pkg |-> deb_pkg,
     deb_pg |-> deb_pg, deb_deps |-> <<>>,
     en_desc |-> <<"d">>, zh_desc |-> <<"z">>, comment |-> <<>>]

\* rows for the extensions the code names, and for ordinary ones
PoolRows == <<
    CsvRow(<<"1","0","0","0">>, <<"t","i","m","e","s","c","a","l","e","d","b">>, <<"t","i","m","e","s","c","a","l","e","d","b">>, <<"T","I","M","E">>, <<"P","I","G","S","T","Y">>, <<"t">>, <<>>,
           <<"P","I","G","S","T","Y">>, <<"t","i","m","e","s","c","a","l","e","d","b","-","2","-","p","o","s","t","g","r","e","s","q","l","-","$","v","*">>, ALL_PG,
           <<"P","I","G","S","T","Y">>, <<"t","i","m","e","s","c","a","l","e","d","b","-","2","-","p","o","s","t","g","r","e","s","q","l","-","$","v">>, ALL_PG),
    CsvRow(<<"1","5","0","0">>, <<"p","o","s","t","g","i","s">>, <<"p","o","s","t","g","i","s">>, <<"G","I","S">>, <<"P","G","D","G">>, <<"t">>, <<>>,
           <<"P","G","D","G">>, <<"p","o","s","t","g","i","s","3","5","_","$","v","*">>, ALL_PG,
           <<"P","G","D","G">>, <<"p","o","s","t","g","r","e","s","q","l","-","$","v","-","p","o","s","t","g","i","s","-","3"," ","p","o","s","t","g","r","e","s","q","l","-","$","v","-","p","o","s","t","g","i","s","-","3","-","s","c","r","i","p","t","s">>, ALL_PG),
    CsvRow(<<"1","5","1","0">>, <<"p","o","s","t","g","i","s","_","t","o","p","o","l","o","g","y">>, <<"p","o","s","t","g","i","s">>, <<"G","I","S">>, <<"P","G","D","G">>, <<"f">>, <<"{","p","o","s","t","g","i","s","}">>,
           <<"P","G","D","G">>, <<"p","o","s","t","g","i","s","3","5","_","$","v","*">>, ALL_PG,
           <<"P","G","D","G">>, <<"p","o","s","t","g","r","e","s","q","l","-","$","v","-","p","o","s","t","g","i","s","-","3"," ","p","o","s","t","g","r","e","s","q","l","-","$","v","-","p","o","s","t","g","i","s","-","3","-","s","c","r","i","p","t","s">>, ALL_PG),
    CsvRow(<<"2","1","0","0">>, <<"p","g","_","s","e","a","r","c","h">>, <<"p","g","_","s","e","a","r","c","h">>, <<"F","T","S">>, <<"P","I","G","S","T","Y">>, <<"t">>, <<>>,
           <<"P","I","G","S","T","Y">>, <<"p","g","_","s","e","a","r","c","h","_","$","v">>, <<"{","1","7",",","1","6",",","1","5",",","1","4","}">>,
           <<"P","I","G","S","T","Y">>, <<"p","o","s","t","g","r","e","s","q","l","-","$","v","-","p","g","-","s","e","a","r","c","h">>, <<"{","1","7",",","1","6",",","1","5",",","1","4","}">>),
    CsvRow(<<"2","1","1","0">>, <<"p","g","_","b","m","2","5">>, <<"p","g","_","b","m","2","5">>, <<"F","T","S">>, <<"P","I","G","S","T","Y">>, <<"t">>, <<"{","p","g","_","s","e","a","r","c","h","}">>,
           <<"P","I","G","S","T","Y">>, <<"p","g","_","s","e","a","r","c","h","_","$","v">>, <<"{","1","7",",","1","6",",","1","5",",","1","4","}">>,
           <<"P","I","G","S","T","Y">>, <<"p","o","s","t","g","r","e","s","q","l","-","$","v","-","p","g","-","s","e","a","r","c","h">>, <<"{","1","7",",","1","6","}">>),
    CsvRow(<<"2","1","8","0">>, <<"h","u","n","s","p","e","l","l","_","c","s","_","c","z">>, <<"h","u","n","s","p","e","l","l","_","c","s","_","c","z">>, <<"F","T","S">>, <<"P","I","G","S","T","Y">>, <<"t">>, <<>>,
           <<"P","I","G","S","T","Y">>, <<"h","u","n","s","p","e","l","l","_","c","s","_","c","z","_","$","v">>, ALL_PG,
           <<"P","I","G","S","T","Y">>, <<"p","o","s","t","g","r","e","s","q","l","-","$","v","-","h","u","n","s","p","e","l","l","-","c","s","-","c","z">>, ALL_PG),
    CsvRow(<<"2","1","8","1">>, <<"h","u","n","s","p","e","l","l","_","d","e","_","d","e">>, <<"h","u","n","s","p","e","l","l","_","d","e","_","d","e">>, <<"F","T","S">>, <<"P","I","G","S","T","Y">>, <<"t">>, <<>>,
           <<"P","I","G","S","T","Y">>, <<"h","u","n","s","p","e","l","l","_","d","e","_","d","e","_","$","v">>, ALL_PG,
           <<"P","I","G","S","T","Y">>, <<"p","o","s","t","g","r","e","s","q","l","-","$","v","-","h","u","n","s","p","e","l","l","-","d","e","-","d","e">>, ALL_PG),
    CsvRow(<<"2","4","0","0">>, <<"c","i","t","u","s">>, <<"c","i","t","u","s">>, <<"O","L","A","P">>, <<"P","G","D","G">>, <<"t">>, <<>>,
           <<"P","G","D","G">>, <<"c","i","t","u","s","_","$","v","*">>, <<"{","1","7",",","1","6",",","1","5",",","1","4","}">>,
           <<"P","I","G","S","T","Y">>, <<"p","o","s","t","g","r","e","s","q","l","-","$","v","-","c","i","t","u","s","-","1","2",".","1">>, ALL_PG),
    CsvRow(<<"2","4","4","0">>, <<"p","g","_","m","o","o","n","c","a","k","e">>, <<"p","g","_","m","o","o","n","c","a","k","e">>, <<"O","L","A","P">>, <<"P","I","G","S","T","Y">>, <<"t">>, <<>>,
           <<"P","I","G","S","T","Y">>, <<"p","g","_","m","o","o","n","c","a","k","e","_","$","v","*">>, <<"{","1","7",",","1","6",",","1","5",",","1","4","}">>,
           <<"P","I","G","S","T","Y">>, <<"p","o","s","t","g","r","e","s","q","l","-","$","v","-","p","g","-","m","o","o","n","c","a","k","e">>, <<"{","1","7",",","1","6",",","1","5",",","1","4","}">>),
    CsvRow(<<"2","6","0","0">>, <<"p","g","_","p","a","r","t","m","a","n">>, <<"p","g","_","p","a","r","t","m","a","n">>, <<"O","L","A","P">>, <<"P","G","D","G">>, <<"t">>, <<>>,
           <<"P","G","D","G">>, <<"p","g","_","p","a","r","t","m","a","n","_","$","v","*">>, ALL_PG,
           <<"P","G","D","G">>, <<"p","o","s","t","g","r","e","s","q","l","-","$","v","-","p","a","r","t","m","a","n">>, ALL_PG),
    CsvRow(<<"3","0","3","0">>, <<"p","l","r">>, <<"p","l","r">>, <<"L","A","N","G">>, <<"P","G","D","G">>, <<"t">>, <<>>,
           <<"P","G","D","G">>, <<"p","l","r","_","$","v","*">>, ALL_PG,
           <<"P","G","D","G">>, <<"p","o","s","t","g","r","e","s","q","l","-","$","v","-","p","l","r">>, ALL_PG),
    CsvRow(<<"3","0","5","0">>, <<"p","l","j","a","v","a">>, <<"p","l","j","a","v","a">>, <<"L","A","N","G">>, <<"P","G","D","G">>, <<"t">>, <<>>,
           <<"P","G","D","G">>, <<"p","l","j","a","v","a","_","$","v","*">>, ALL_PG,
           <<"P","G","D","G">>, <<"p","o","s","t","g","r","e","s","q","l","-","$","v","-","p","l","j","a","v","a">>, ALL_PG),
    CsvRow(<<"5","7","0","0">>, <<"p","g","_","d","b","m","s","_","j","o","b">>, <<"p","g","_","d","b","m","s","_","j","o","b">>, <<"A","D","M","I","N">>, <<"P","G","D","G">>, <<"t">>, <<>>,
           <<"P","G","D","G">>, <<"p","g","_","d","b","m","s","_","j","o","b","_","$","v","*">>, ALL_PG,
           <<>>, <<>>, <<>>),
    CsvRow(<<"7","0","0","0">>, <<"p","g","a","u","d","i","t">>, <<"p","g","a","u","d","i","t">>, <<"S","E","C">>, <<"P","G","D","G">>, <<"t">>, <<>>,
           <<"P","G","D","G">>, <<"p","g","a","u","d","i","t","_","$","v","*">>, ALL_PG,
           <<"P","G","D","G">>, <<"p","o","s","t","g","r","e","s","q","l","-","$","v","-","p","g","a","u","d","i","t">>, ALL_PG),
    CsvRow(<<"9","0","0","0">>, <<"b","a","b","e","l","f","i","s","h","p","g","_","c","o","m","m","o","n">>, <<"b","a","b","e","l","f","i","s","h","p","g","_","c","o","m","m","o","n">>, <<"S","I","M">>, <<"W","I","L","T","O","N">>, <<"t">>, <<>>,
           <<"W","I","L","T","O","N">>, <<"b","a","b","e","l","f","i","s","h","p","g","-","c","o","m","m","o","n","*">>, <<"{","1","5","}">>,
           <<"W","I","L","T","O","N">>, <<"b","a","b","e","l","f","i","s","h","p","g","-","c","o","m","m","o","n">>, <<"{","1","5","}">>),
    CsvRow(<<"9","0","1","0">>, <<"b","a","b","e","l","f","i","s","h","p","g","_","t","s","q","l">>, <<"b","a","b","e","l","f","i","s","h","p","g","_","t","s","q","l">>, <<"S","I","M">>, <<"W","I","L","T","O","N">>, <<"t">>,
           <<"{","b","a","b","e","l","f","i","s","h","p","g","_","c","o","m","m","o","n","}">>,
           <<"W","I","L","T","O","N">>, <<"b","a","b","e","l","f","i","s","h","p","g","-","t","s","q","l","*">>, <<"{","1","5","}">>,
           <<"W","I","L","T","O","N">>, <<"b","a","b","e","l","f","i","s","h","p","g","-","t","s","q","l">>, <<"{","1","5","}">>),
    CsvRow(<<"9","5","0","0">>, <<"a","m","c","h","e","c","k">>, <<"a","m","c","h","e","c","k">>, <<"A","D","M","I","N">>, <<"C","O","N","T","R","I","B">>, <<"t">>, <<>>,
           <<"C","O","N","T","R","I","B">>, <<"p","o","s","t","g","r","e","s","q","l","$","v","-","c","o","n","t","r","i","b">>, ALL_PG,
           <<"C","O","N","T","R","I","B">>, <<"p","o","s","t","g","r","e","s","q","l","-","$","v">>, ALL_PG),
    CsvRow(<<"9","0","2","0">>, <<"b","a","b","e","l","f","i","s","h","p","g","_","t","d","s">>, <<"b","a","b","e","l","f","i","s","h","p","g","_","t","d","s">>, <<"S","I","M">>, <<"W","I","L","T","O","N">>, <<"t">>,
           <<"{","b","a","b","e","l","f","i","s","h","p","g","_","t","s","q","l","}">>,
           <<"W","I","L","T","O","N">>, <<"b","a","b","e","l","f","i","s","h","p","g","-","t","d","s","*">>, <<"{","1","5","}">>,
           <<"W","I","L","T","O","N">>, <<"b","a","b","e","l","f","i","s","h","p","g","-","t","d","s">>, <<"{","1","5","}">>),
    CsvRow(<<"9","0","3","0">>, <<"b","a","b","e","l","f","i","s","h","p","g","_","m","o","n","e","y">>, <<"b","a","b","e","l","f","i","s","h","p","g","_","m","o","n","e","y">>, <<"S","I","M">>, <<"W","I","L","T","O","N">>, <<"t">>,
           <<"{","b","a","b","e","l","f","i","s","h","p","g","_","c","o","m","m","o","n","}">>,
           <<"W","I","L","T","O","N">>, <<"b","a","b","e","l","f","i","s","h","p","g","-","m","o","n","e","y","*">>, <<"{","1","5","}">>,
           <<"W","I","L","T","O","N">>, <<"b","a","b","e","l","f","i","s","h","p","g","-","m","o","n","e","y">>, <<"{","1","5","}">>),
    CsvRow(<<"1","0","2","0">>, <<"t","i","m","e","s","e","r","i","e","s">>, <<"p","g","_","t","i","m","e","s","e","r","i","e","s">>, <<"T","I","M","E">>, <<"P","I","G","S","T","Y">>, <<"t">>,
           <<"{","p","g","_","p","a","r","t","m","a","n","}">>,
           <<"P","I","G","S","T","Y">>, <<"p","g","_","t","i","m","e","s","e","r","i","e","s","_","$","v">>, ALL_PG,
           <<"P","I","G","S","T","Y">>, <<"p","o","s","t","g","r","e","s","q","l","-","$","v","-","p","g","-","t","i","m","e","s","e","r","i","e","s">>, ALL_PG),
    CsvRow(<<"5","2","3","0">>, <<"p","g","_","f","i","l","e","d","u","m","p">>, <<"p","g","_","f","i","l","e","d","u","m","p">>, <<"A","D","M","I","N">>, <<"P","G","D","G">>, <<"t">>, <<>>,
           <<"P","G","D","G">>, <<"p","g","_","f","i","l","e","d","u","m","p","_","$","v","*">>, ALL_PG,
           <<"P","G","D","G">>, <<"p","o","s","t","g","r","e","s","q","l","-","f","i","l","e","d","u","m","p">>, ALL_PG)
>>

\* packaging variants of a row: as written, without a repository, with the
\* newest versions only, and with a repository of another kind
Packagings == {"asis", "none", "newest", "other"}

Repackage(raw, family, how) ==
    LET repo == IF how = "none" THEN <<>>
                ELSE IF how = "other" THEN <<"T","I","M","E","S","C","A","L","E">>
                ELSE IF family = "rpm" THEN raw.rpm_repo ELSE raw.deb_repo
        pg   == IF how = "newest" THEN <<"{","1","7",",","1","6","}">>
                ELSE IF family = "rpm" THEN raw.rpm_pg ELSE raw.deb_pg
    IN  IF how = "asis" THEN raw
        ELSE IF family = "rpm"
        THEN [raw EXCEPT !.rpm_repo = repo, !.rpm_pg = pg]
        ELSE [raw EXCEPT !.deb_repo = repo, !.deb_pg = pg]

\* the rows a direct call is tried on
CallRows ==
    {Repackage(Repackage(PoolRows[i], "rpm", r), "deb", d) :
        i \in 1..Len(PoolRows), r \in Packagings, d \in Packagings}

\* the rows the catalogs of the batch specifications are made of
BatchRows == {PoolRows[i] : i \in {2, 4, 5, 6, 8, 11, 15, 17}}

\* the catalogs of the batch specifications: up to MaxRows rows
RECURSIVE SeqsUpTo(_, _)
SeqsUpTo(S, n) ==
    IF n = 0 THEN {<<>>}
    ELSE LET shorter == SeqsUpTo(S, n - 1)
         IN  shorter \cup {Append(q, x) : q \in {p \in shorter : Len(p) = n - 1}, x \in S}

BatchCatalogs == SeqsUpTo(BatchRows, MaxRows)

\* the distro arguments a direct call is tried with
CallDistros == RpmFamily \cup DebFamily \cup {<<"E","L","8">>, <<"e","l","1","0">>}

(***************************************************************************)
(* The module's statements, in the order the interpreter runs them.        *)
(***************************************************************************)
\* MainSequence with generate_readme() called before the loop that builds
\* DEP_MAP and EXT_MAP
MainSequenceReadmeBeforeMaps ==
    <<"load_data", "stat_data", "CATE", "generate_readme", "EXT_MAP",
      "generate_all_list", "generate_rpm_list",
      "generate_deb_list", "generate_contrib_list", "generate_categories",
      "generate_category", "generate_extension", "exit">>

MainSequence ==
    <<"load_data", "stat_data", "CATE", "EXT_MAP",
      "generate_readme", "generate_all_list", "generate_rpm_list",
      "generate_deb_list", "generate_contrib_list", "generate_categories",
      "generate_category", "generate_extension", "exit">>

\* the statement after statement p
After(p) == MainSequence[(CHOOSE i \in 1..Len(MainSequence) : MainSequence[i] = p) + 1]

LoadSteps == {"load_data", "stat_data", "CATE", "EXT_MAP"}

NoCall == [fn |-> "none", ver |-> <<>>, distro |-> <<>>, i |-> 0, ret |-> <<>>]

\* the state before the first statement, for the catalog rows
Start(rows, stubs) ==
    /\ csv = rows
    /\ stub = stubs
    /\ pc = MainSequence[1]
    /\ k = 0
    /\ DATA = <<>>
    /\ STAT = <<>>
    /\ CATE = <<>>
    /\ DEP_MAP = <<>>
    /\ EXT_MAP = <<>>
    /\ docs = <<>>
    /\ run = 1
    /\ prev = <<>>
    /\ call = NoCall

\* DATA = load_data()
LoadData ==
    /\ pc = "load_data"
    /\ DATA' = load_data(csv)
    /\ pc' = After(pc)
    /\ UNCHANGED <<csv, stub, k, STAT, CATE, DEP_MAP, EXT_MAP, docs, run, prev, call>>

\* STAT = stat_data(DATA)
StatData ==
    /\ pc = "stat_data"
    /\ STAT' = stat_data(DATA)
    /\ pc' = After(pc)
    /\ UNCHANGED <<csv, stub, k, DATA, CATE, DEP_MAP, EXT_MAP, docs, run, prev, call>>

\* CATE = list(dict.fromkeys([i['category'] for i in DATA]))
BuildCate ==
    /\ pc = "CATE"
    /\ \E order \in CateOrders(DATA) : CATE' = order
    /\ pc' = After(pc)
    /\ UNCHANGED <<csv, stub, k, DATA, STAT, DEP_MAP, EXT_MAP, docs, run, prev, call>>

\* DEP_MAP = {}; EXT_MAP = {}; for ext in DATA: ...
BuildMaps ==
    /\ pc = "EXT_MAP"
    /\ EXT_MAP' = BuildExtMap(DATA)
    /\ DEP_MAP' = BuildDepMap(DATA)
    /\ pc' = After(pc)
    /\ UNCHANGED <<csv, stub, k, DATA, STAT, CATE, docs, run, prev, call>>

Load == LoadData \/ StatData \/ BuildCate \/ BuildMaps

(***************************************************************************)
(* Direct calls of the functions on the loaded catalog, with any version   *)
(* and any distro argument.                                                *)
(***************************************************************************)
Loaded == pc = "generate_readme" /\ call = NoCall

\* the caller takes the result; the next call can be made
Return ==
    /\ call # NoCall
    /\ call' = NoCall
    /\ UNCHANGED <<csv, stub, pc, k, DATA, STAT, CATE, DEP_MAP, EXT_MAP, docs, run, prev>>

CallProcessExt(ver, distro, i) ==
    /\ Loaded
    /\ call' = [fn |-> "process_ext", ver |-> ver, distro |-> distro, i |-> i,
                ret |-> process_ext(ver, distro, DATA[i])]
    /\ UNCHANGED <<csv, stub, pc, k, DATA, STAT, CATE, DEP_MAP, EXT_MAP, docs, run, prev>>

CallJudgeExt(ver, distro, i) ==
    /\ Loaded
    /\ call' = [fn |-> "judge_ext", ver |-> ver, distro |-> distro, i |-> i,
                ret |-> judge_ext(ver, distro, DATA[i])]
    /\ UNCHANGED <<csv, stub, pc, k, DATA, STAT, CATE, DEP_MAP, EXT_MAP, docs, run, prev>>

CallGenExtList(ver, distro) ==
    /\ Loaded
    /\ call' = [fn |-> "gen_ext_list", ver |-> ver, distro |-> distro, i |-> 0,
                ret |-> gen_ext_list(ver, distro)]
    /\ UNCHANGED <<csv, stub, pc, k, DATA, STAT, CATE, DEP_MAP, EXT_MAP, docs, run, prev>>

CallGenCateExtList(ver, distro, c) ==
    /\ Loaded
    /\ call' = [fn |-> "gen_cate_ext_list", ver |-> ver, distro |-> distro, i |-> c,
                ret |-> gen_cate_ext_list(ver, distro, CATE[c])]
    /\ UNCHANGED <<csv, stub, pc, k, DATA, STAT, CATE, DEP_MAP, EXT_MAP, docs, run, prev>>

\* gen_param(ver, distro, indent, header)
CallGenParam(ver, distro, indent, header) ==
    /\ Loaded
    /\ call' = [fn |-> "gen_param", ver |-> ver, distro |-> distro, i |-> 0,
                ret |-> gen_param(ver, distro, indent, header)]
    /\ UNCHANGED <<csv, stub, pc, k, DATA, STAT, CATE, DEP_MAP, EXT_MAP, docs, run, prev>>

\* the filters a direct call of tabulate is tried with, in the shape of
\* the filters the pages pass: every row, no row, row['contrib'],
\* row['category'] == 'FTS'
FilterOf(f) ==
    [row \in Rows |-> CASE f = "all"      -> TRUE
                      [] f = "none"     -> FALSE
                      [] f = "contrib"  -> row.contrib
                      [] f = "category" -> row.category = <<"F","T","S">>]

\* the column lists a direct call of tabulate is tried with: up to MaxCols
\* of these columns, in any order
ColumnLists ==
    SeqsUpTo({"id", "name", "ext3", "en_desc", "relocatable"}, MaxCols) \ {<<>>}

\* tabulate(Columns(cols), filter_func)
CallTabulate(cols, f) ==
    /\ Loaded
    /\ call' = [fn |-> "tabulate", ver |-> <<>>, distro |-> <<>>, i |-> 0,
                cols |-> cols, filter |-> f,
                ret |-> TabulateCall(cols, FilterOf(f))]
    /\ UNCHANGED <<csv, stub, pc, k, DATA, STAT, CATE, DEP_MAP, EXT_MAP, docs, run, prev>>

\* the body of the loop of generate_extension run for the row DATA[i]
CallGenerateExtension(i) ==
    /\ Loaded
    /\ call' = [fn |-> "generate_extension", ver |-> <<>>, distro |-> <<>>, i |-> i,
                ret |-> generate_extension(DATA[i])]
    /\ UNCHANGED <<csv, stub, pc, k, DATA, STAT, CATE, DEP_MAP, EXT_MAP, docs, run, prev>>

Versions == {PG_VERS[i] : i \in 1..Len(PG_VERS)}

\* process_ext, judge_ext and the body of generate_extension called
\* directly on a catalog of one row
InitCalls == \E r \in CallRows : Start(<<r>>, <<>>)

NextCalls ==
    \/ Load
    \/ \E ver \in Versions, distro \in CallDistros, i \in 1..Len(DATA) :
          CallProcessExt(ver, distro, i)
    \/ \E ver \in Versions, distro \in CallDistros, i \in 1..Len(DATA) :
          CallJudgeExt(ver, distro, i)
    \/ \E i \in 1..Len(DATA) : CallGenerateExtension(i)
    \/ Return

SpecCalls == InitCalls /\ [][NextCalls]_vars

\* gen_ext_list and gen_cate_ext_list called directly on a catalog of up to
\* MaxRows rows
InitLists == \E rows \in BatchCatalogs : Start(rows, <<>>)

NextLists ==
    \/ Load
    \/ \E ver \in Versions, distro \in CallDistros : CallGenExtList(ver, distro)
    \/ \E ver \in Versions, distro \in CallDistros, c \in 1..Len(CATE) :
          CallGenCateExtList(ver, distro, c)
    \/ Return

SpecLists == InitLists /\ [][NextLists]_vars

\* the five functions that take a distro, and tabulate, called directly on
\* a catalog of up to MaxRows of the rows hunspell_cs_cz, hunspell_de_de and
\* amcheck (whose repository is CONTRIB)
InitDirect ==
    \E rows \in SeqsUpTo({PoolRows[i] : i \in {6, 7, 17}}, MaxRows) : Start(rows, <<>>)

NextDirect ==
    \/ Load
    \/ \E ver \in Versions, distro \in CallDistros, i \in 1..Len(DATA) :
          CallProcessExt(ver, distro, i)
    \/ \E ver \in Versions, distro \in CallDistros, i \in 1..Len(DATA) :
          CallJudgeExt(ver, distro, i)
    \/ \E ver \in Versions, distro \in CallDistros : CallGenExtList(ver, distro)
    \/ \E ver \in Versions, distro \in CallDistros, c \in 1..Len(CATE) :
          CallGenCateExtList(ver, distro, c)
    \/ \E ver \in Versions, distro \in CallDistros, indent \in {-1, 0},
          header \in BOOLEAN : CallGenParam(ver, distro, indent, header)
    \/ \E cols \in ColumnLists, f \in {"all", "none", "contrib", "category"} :
          CallTabulate(cols, f)
    \/ Return

SpecDirect == InitDirect /\ [][NextDirect]_vars

(***************************************************************************)
(* The batch run: the statements at the end of the module, one after       *)
(* another.  A generate_* statement that returns has written its file; one *)
(* that raises ends the run with a traceback.                              *)
(***************************************************************************)
\* RenderStep also storing the package columns of the family in the rows of
\* DATA
RenderStepStoringColumns(step, doc) ==
    /\ pc = step
    /\ \E d \in {doc} :
          IF d.status = "ok"
          THEN /\ docs' = Append(docs, [file |-> d.file, args |-> d.args])
               /\ pc' = After(pc)
          ELSE /\ docs' = docs
               /\ pc' = "raised"
    /\ DATA' = [i \in 1..Len(DATA) |-> [DATA[i] EXCEPT !.pg_ver = DATA[i].rpm_pg]]
    /\ UNCHANGED <<csv, stub, k, STAT, CATE, DEP_MAP, EXT_MAP, run, prev, call>>

\* a statement that calls one generate_* function writing one file
RenderStep(step, doc) ==
    /\ pc = step
    /\ \E d \in {doc} :
          IF d.status = "ok"
          THEN /\ docs' = Append(docs, [file |-> d.file, args |-> d.args])
               /\ pc' = After(pc)
          ELSE /\ docs' = docs
               /\ pc' = "raised"
    /\ UNCHANGED <<csv, stub, k, DATA, STAT, CATE, DEP_MAP, EXT_MAP, run, prev, call>>

\* one turn of the loop of a generate_* function that writes a file per item
\* of a list of n items: the file of item k + 1, or the end of the loop
LoopStep(step, n, doc) ==
    /\ pc = step
    /\ IF k < n
       THEN \E d \in {doc} :
               IF d.status = "ok"
               THEN /\ docs' = Append(docs, [file |-> d.file, args |-> d.args])
                    /\ k' = k + 1
                    /\ pc' = pc
               ELSE /\ docs' = docs
                    /\ k' = k
                    /\ pc' = "raised"
       ELSE /\ docs' = docs
            /\ k' = 0
            /\ pc' = After(pc)
    /\ UNCHANGED <<csv, stub, DATA, STAT, CATE, DEP_MAP, EXT_MAP, run, prev, call>>

GenerateReadme == RenderStep("generate_readme", generate_readme)

GenerateAllList == RenderStep("generate_all_list", generate_all_list)

GenerateRpmList == RenderStep("generate_rpm_list", generate_rpm_list)

GenerateDebList == RenderStep("generate_deb_list", generate_deb_list)

GenerateContribList == RenderStep("generate_contrib_list", generate_contrib_list)

GenerateCategories == RenderStep("generate_categories", generate_categories)

GenerateCategory ==
    LoopStep("generate_category", Len(CATE), generate_category(CATE[k + 1]))

GenerateExtension ==
    LoopStep("generate_extension", Len(DATA), generate_extension(DATA[k + 1]))

\* the program is started again on the same CSV file and stub directory
Rerun ==
    /\ pc = "exit"
    /\ run = 1
    /\ run' = 2
    /\ prev' = docs
    /\ pc' = MainSequence[1]
    /\ k' = 0
    /\ DATA' = <<>>
    /\ STAT' = <<>>
    /\ CATE' = <<>>
    /\ DEP_MAP' = <<>>
    /\ EXT_MAP' = <<>>
    /\ docs' = <<>>
    /\ UNCHANGED <<csv, stub, call>>

\* the rows of the catalogs of a batch run
RunRows == {PoolRows[i] : i \in {2, 4, 5, 15, 17}}

\* the catalogs of a batch run: up to MaxRows rows
RunCatalogs == SeqsUpTo(RunRows, MaxRows)

\* the stub directory of a batch run: the stub pages by extension name
StubDirs == {<<>>, <<"p","o","s","t","g","i","s">> :> <<"#","#"," ","U","s","a","g","e","\n">>}

Init == \E rows \in RunCatalogs, stubs \in StubDirs : Start(rows, stubs)

Next ==
    \/ Load
    \/ GenerateReadme
    \/ GenerateAllList
    \/ GenerateRpmList
    \/ GenerateDebList
    \/ GenerateContribList
    \/ GenerateCategories
    \/ GenerateCategory
    \/ GenerateExtension

\* one run of the program
Spec == Init /\ [][Next]_vars

\* one run of the program, which the interpreter keeps executing
FairSpec == Spec /\ WF_vars(Next)

NextTwice == Next \/ Rerun

\* two runs of the program over the same CSV file and stub directory
SpecTwice == Init /\ [][NextTwice]_vars

(***************************************************************************)
(* Vocabulary of the properties.                                           *)
(***************************************************************************)
\* the row a direct call of process_ext or judge_ext was made on
CallRow == DATA[call.i]

RpmDistros == {<<"e","l","7">>, <<"e","l","8">>, <<"e","l","9">>}

DebDistros == {<<"u","2","0">>, <<"u","2","2">>, <<"u","2","4">>, <<"d","1","1">>, <<"d","1","2">>}

\* the columns of a row that belong to the family of a named distro
SelectedPkg(distro, row) == IF distro \in RpmDistros THEN row.rpm_pkg ELSE row.deb_pkg

SelectedPg(distro, row) == IF distro \in RpmDistros THEN row.rpm_pg ELSE row.deb_pg

SelectedHas(distro, row) == IF distro \in RpmDistros THEN row.has_rpm ELSE row.has_deb

\* the items of a '#'-commented list without the '#'
Uncomment(list) == [i \in 1..Len(list) |-> Tail(list[i])]

\* the package names and the extension names a process_ext result carries,
\* enabled or commented
ReturnedPackages(ret) == ret.pkg_aye \o Uncomment(ret.pkg_nay)

ReturnedExtensions(ret) == ret.ext_aye \o Uncomment(ret.ext_nay)

\* the extensions process_ext and judge_ext rename
SpecialCase(name) ==
    name \in {<<"p","g","a","u","d","i","t">>, <<"c","i","t","u","s">>, <<"p","o","s","t","g","i","s">>} \/ StartsWith(name, <<"b","a","b","e","l","f","i","s","h","p","g">>)

\* a direct call of process_ext or judge_ext that returned, on one of the
\* eight named distros
NamedCall(fn) ==
    /\ call.fn = fn
    /\ call.distro \in RpmDistros \cup DebDistros
    /\ call.ret.status = "ok"

(***************************************************************************)
(* C3, as stated: for every version and named distro, an extension that is *)
(* none of pgaudit, citus, postgis, babelfishpg* gets as package name the  *)
(* package pattern of the distro's family (rpm_pkg on el7/el8/el9, deb_pkg *)
(* on u20/u22/u24/d11/d12) with every '$v' replaced by the version, and as *)
(* extension name the row's alias; it is enabled or available only by the  *)
(* family's has_* flag and version list.                                   *)
(***************************************************************************)
C3_AliasForEveryOrdinaryExtension ==
    LET row      == CallRow
        expected == Replace(SelectedPkg(call.distro, row), <<"$","v">>, call.ver)
    IN  /\ (NamedCall("process_ext") /\ ~SpecialCase(row.name)) =>
              /\ ReturnedPackages(call.ret) = <<expected>>
              /\ \A i \in 1..Len(ReturnedExtensions(call.ret)) :
                     ReturnedExtensions(call.ret)[i] = row.alias
              /\ call.ret.pkg_aye # <<>> =>
                     SelectedHas(call.distro, row) /\ In(call.ver, SelectedPg(call.distro, row))
        /\ (NamedCall("judge_ext") /\ ~SpecialCase(row.name)) =>
              /\ call.ret.package = expected
              /\ call.ret.extension = row.alias
              /\ call.ret.avail => In(call.ver, SelectedPg(call.distro, row))

(***************************************************************************)
(* C3, amended: as above, except that process_ext names the extension of   *)
(* the row hunspell_cs_cz 'hunspell' instead of its alias.                 *)
(***************************************************************************)
C3_FamilyColumnsAndPlainNames ==
    LET row      == CallRow
        expected == Replace(SelectedPkg(call.distro, row), <<"$","v">>, call.ver)
    IN  /\ (NamedCall("process_ext") /\ ~SpecialCase(row.name)) =>
              /\ ReturnedPackages(call.ret) = <<expected>>
              /\ \A i \in 1..Len(ReturnedExtensions(call.ret)) :
                     ReturnedExtensions(call.ret)[i] =
                         IF row.name = <<"h","u","n","s","p","e","l","l","_","c","s","_","c","z">> THEN <<"h","u","n","s","p","e","l","l">> ELSE row.alias
              /\ call.ret.pkg_aye # <<>> =>
                     SelectedHas(call.distro, row) /\ In(call.ver, SelectedPg(call.distro, row))
        /\ (NamedCall("judge_ext") /\ ~SpecialCase(row.name)) =>
              /\ call.ret.package = expected
              /\ call.ret.extension = row.alias
              /\ call.ret.avail => In(call.ver, SelectedPg(call.distro, row))

\* process_ext for PG16 on u22 gives hunspell_cs_cz its deb package with the
\* version substituted, enabled, under the extension name hunspell
C3_Witness ==
    /\ NamedCall("process_ext")
    /\ call.distro = <<"u","2","2">> /\ call.ver = <<"1","6">>
    /\ CallRow.name = <<"h","u","n","s","p","e","l","l","_","c","s","_","c","z">>
    /\ call.ret.pkg_aye = <<<<"p","o","s","t","g","r","e","s","q","l","-","1","6","-","h","u","n","s","p","e","l","l","-","c","s","-","c","z">>>>
    /\ call.ret.ext_aye = <<<<"h","u","n","s","p","e","l","l">>>>

(***************************************************************************)
(* C4: process_ext returns a package enabled (in pkg_aye, without '#')     *)
(* only if the row has a package for the distro's family, the version is   *)
(* in the family's version list, the name is not in DISTRO_MISS[distro]    *)
(* and the alias is in neither HIDE_LIST nor THROW_LIST; otherwise the     *)
(* package comes back '#'-commented or not at all.                         *)
(***************************************************************************)
C4_EnabledOnlyIfPackaged ==
    (call.fn = "process_ext" /\ call.distro \in RpmFamily \cup DebFamily) =>
        LET row  == CallRow
            fam  == IF call.distro \in RpmFamily THEN "rpm" ELSE "deb"
            has  == IF fam = "rpm" THEN row.has_rpm ELSE row.has_deb
            pgs  == IF fam = "rpm" THEN row.rpm_pg ELSE row.deb_pg
            ok   == /\ has
                    /\ In(call.ver, pgs)
                    /\ call.distro \in DOMAIN DISTRO_MISS
                    /\ ~In(row.name, DISTRO_MISS[call.distro])
                    /\ ~In(row.alias, HIDE_LIST)
                    /\ ~In(row.alias, THROW_LIST)
        IN  /\ call.ret.pkg_aye # <<>> => ok
            /\ \A i \in 1..Len(call.ret.pkg_aye) : Head(call.ret.pkg_aye[i]) # "#"
            /\ \A i \in 1..Len(call.ret.pkg_nay) : Head(call.ret.pkg_nay[i]) = "#"
            /\ Len(call.ret.pkg_aye) + Len(call.ret.pkg_nay) <= 1

\* plr has a package for PG17 on el9 and is in no DISTRO_MISS list, but its
\* alias is in HIDE_LIST: the package comes back commented
C4_Witness ==
    /\ call.fn = "process_ext" /\ call.distro = <<"e","l","9">> /\ call.ver = <<"1","7">>
    /\ CallRow.name = <<"p","l","r">> /\ CallRow.has_rpm /\ In(<<"1","7">>, CallRow.rpm_pg)
    /\ call.ret.pkg_aye = <<>>
    /\ call.ret.pkg_nay = <<<<"#","p","l","r","_","1","7","*">>>>

(***************************************************************************)
(* C6: the flags load_data derives agree with the columns: has_rpm iff     *)
(* rpm_repo is non-empty and has_deb iff deb_repo is non-empty; rpm_pgdg,  *)
(* rpm_pigsty and rpm_misc exclude each other and each implies has_rpm     *)
(* (the same for deb); and the misc flag is false when the repository is   *)
(* one of PGDG, PIGSTY, TIMESCALE, CITUS, CONTRIB.                         *)
(***************************************************************************)
AtMostOne(a, b, c) == ~(a /\ b) /\ ~(a /\ c) /\ ~(b /\ c)

NotMiscRepos == {<<"P","G","D","G">>, <<"P","I","G","S","T","Y">>, <<"T","I","M","E","S","C","A","L","E">>, <<"C","I","T","U","S">>, <<"C","O","N","T","R","I","B">>}

C6_FlagsAgreeWithColumns ==
    pc # "load_data" =>
        /\ Len(DATA) = Len(csv)
        /\ \A i \in 1..Len(DATA) :
              /\ DATA[i].has_rpm <=> csv[i].rpm_repo # <<>>
              /\ DATA[i].has_deb <=> csv[i].deb_repo # <<>>
              /\ AtMostOne(DATA[i].rpm_pgdg, DATA[i].rpm_pigsty, DATA[i].rpm_misc)
              /\ AtMostOne(DATA[i].deb_pgdg, DATA[i].deb_pigsty, DATA[i].deb_misc)
              /\ (DATA[i].rpm_pgdg \/ DATA[i].rpm_pigsty \/ DATA[i].rpm_misc)
                     => DATA[i].has_rpm
              /\ (DATA[i].deb_pgdg \/ DATA[i].deb_pigsty \/ DATA[i].deb_misc)
                     => DATA[i].has_deb
              /\ csv[i].rpm_repo \in NotMiscRepos => ~DATA[i].rpm_misc
              /\ csv[i].deb_repo \in NotMiscRepos => ~DATA[i].deb_misc

\* a loaded row of the WILTON rpm repository (misc) whose deb repository is
\* TIMESCALE (packaged, and not misc)
C6_Witness ==
    /\ pc # "load_data" /\ Len(DATA) = 1
    /\ csv[1].rpm_repo = <<"W","I","L","T","O","N">> /\ DATA[1].rpm_misc /\ ~DATA[1].rpm_pgdg
    /\ csv[1].deb_repo = <<"T","I","M","E","S","C","A","L","E">> /\ DATA[1].has_deb /\ ~DATA[1].deb_misc

(***************************************************************************)
(* C9: for the extension pgaudit on el8 and el9, process_ext and judge_ext *)
(* name the extension alias + (version + 2) for PG 12, 13, 14, 15          *)
(* (pg15 -> pgaudit17, ..., pg12 -> pgaudit14) and put the same suffix     *)
(* into the package name; for PG 16 and 17, and on every deb distro, the   *)
(* extension name is the plain alias.                                      *)
(***************************************************************************)
PgauditSuffix(ver) ==
    CASE ver = <<"1","5">> -> <<"1","7">> [] ver = <<"1","4">> -> <<"1","6">>
      [] ver = <<"1","3">> -> <<"1","5">> [] ver = <<"1","2">> -> <<"1","4">>

C9_PgauditRename ==
    LET row     == CallRow
        renamed == call.distro \in {<<"e","l","8">>, <<"e","l","9">>}
                   /\ call.ver \in {<<"1","2">>, <<"1","3">>, <<"1","4">>, <<"1","5">>}
        plain   == \/ call.distro \in {<<"e","l","8">>, <<"e","l","9">>} /\ call.ver \in {<<"1","6">>, <<"1","7">>}
                   \/ call.distro \in DebDistros
        base    == Replace(SelectedPkg(call.distro, row), <<"$","v">>, call.ver)
        extname == IF renamed THEN row.alias \o PgauditSuffix(call.ver) ELSE row.alias
        pkgname == IF renamed
                   THEN Replace(base, <<"p","g","a","u","d","i","t">>, <<"p","g","a","u","d","i","t">> \o PgauditSuffix(call.ver))
                   ELSE base
    IN  /\ (NamedCall("process_ext") /\ row.name = <<"p","g","a","u","d","i","t">> /\ (renamed \/ plain)) =>
              /\ ReturnedExtensions(call.ret) = <<extname>>
              /\ ReturnedPackages(call.ret) = <<pkgname>>
        /\ (NamedCall("judge_ext") /\ row.name = <<"p","g","a","u","d","i","t">> /\ (renamed \/ plain)) =>
              /\ call.ret.extension = extname
              /\ call.ret.package = pkgname

\* judge_ext for PG15 on el9 gives pgaudit17 and the package pgaudit17_15*
C9_Witness ==
    /\ NamedCall("judge_ext") /\ call.distro = <<"e","l","9">> /\ call.ver = <<"1","5">>
    /\ CallRow.name = <<"p","g","a","u","d","i","t">> /\ CallRow.alias = <<"p","g","a","u","d","i","t">>
    /\ call.ret.extension = <<"p","g","a","u","d","i","t","1","7">>
    /\ call.ret.package = <<"p","g","a","u","d","i","t","1","7","_","1","5","*">>

(***************************************************************************)
(* C10: for the extension postgis, process_ext and judge_ext use postgis34 *)
(* (extension name, and package in place of postgis35) for PG12 on el8 and *)
(* el9, postgis33 for every version on el7, and the unmodified alias and   *)
(* package on every other distro and version.                              *)
(***************************************************************************)
C10_PostgisRename ==
    LET row     == CallRow
        base    == Replace(SelectedPkg(call.distro, row), <<"$","v">>, call.ver)
        extname == IF call.distro = <<"e","l","7">> THEN <<"p","o","s","t","g","i","s","3","3">>
                   ELSE IF call.distro \in {<<"e","l","8">>, <<"e","l","9">>} /\ call.ver = <<"1","2">>
                   THEN <<"p","o","s","t","g","i","s","3","4">>
                   ELSE row.alias
        pkgname == IF call.distro = <<"e","l","7">> THEN Replace(base, <<"p","o","s","t","g","i","s","3","5">>, <<"p","o","s","t","g","i","s","3","3">>)
                   ELSE IF call.distro \in {<<"e","l","8">>, <<"e","l","9">>} /\ call.ver = <<"1","2">>
                   THEN Replace(base, <<"p","o","s","t","g","i","s","3","5">>, <<"p","o","s","t","g","i","s","3","4">>)
                   ELSE base
    IN  /\ (NamedCall("process_ext") /\ row.name = <<"p","o","s","t","g","i","s">>) =>
              /\ ReturnedExtensions(call.ret) = <<extname>>
              /\ ReturnedPackages(call.ret) = <<pkgname>>
        /\ (NamedCall("judge_ext") /\ row.name = <<"p","o","s","t","g","i","s">>) =>
              /\ call.ret.extension = extname
              /\ call.ret.package = pkgname

\* process_ext for PG12 on el8 enables the package postgis34_12* under the
\* extension name postgis34
C10_Witness ==
    /\ NamedCall("process_ext") /\ call.distro = <<"e","l","8">> /\ call.ver = <<"1","2">>
    /\ CallRow.name = <<"p","o","s","t","g","i","s">>
    /\ call.ret.pkg_aye = <<<<"p","o","s","t","g","i","s","3","4","_","1","2","*">>>>
    /\ call.ret.ext_aye = <<<<"p","o","s","t","g","i","s","3","4">>>>

(***************************************************************************)
(* C5: every per-category entry gen_ext_list builds is deduplicated in     *)
(* order: each distinct enabled package string and each distinct           *)
(* '#'-commented package string stands in the entry exactly once, in the   *)
(* order of first occurrence among the DATA rows of the category, enabled  *)
(* items before commented items, and the entry holds nothing else; the     *)
(* same for the extension-name entry.                                      *)
(***************************************************************************)
\* the items of a list, as a set
Distinct(list) == {list[i] : i \in 1..Len(list)}

\* where x occurs first in list
FirstIndex(list, x) ==
    CHOOSE i \in 1..Len(list) : list[i] = x /\ \A j \in 1..(i - 1) : list[j] # x

\* the positions of entry at which the item x stands between spaces or the
\* ends of the entry
Places(entry, x) ==
    {p \in 1..(Len(entry) - Len(x) + 1) :
        /\ SubSeq(entry, p, p + Len(x) - 1) = x
        /\ p = 1 \/ entry[p - 1] = " "
        /\ p + Len(x) - 1 = Len(entry) \/ entry[p + Len(x)] = " "}

Place(entry, x) == CHOOSE p \in Places(entry, x) : TRUE

RECURSIVE SumLen(_)
SumLen(S) ==
    IF S = {} THEN 0
    ELSE LET x == CHOOSE y \in S : TRUE IN Len(x) + SumLen(S \ {x})

Gaps(S) == IF S = {} THEN 0 ELSE Cardinality(S) - 1

\* entry lists the items of aye and then those of nay, each once, in the
\* order of first occurrence, separated by single spaces
DedupedInOrder(entry, aye, nay) ==
    LET A == Distinct(aye)
        N == Distinct(nay)
    IN  /\ \A x \in A \cup N : Cardinality(Places(entry, x)) = 1
        /\ \A x, y \in A : FirstIndex(aye, x) < FirstIndex(aye, y)
                               => Place(entry, x) < Place(entry, y)
        /\ \A x, y \in N : FirstIndex(nay, x) < FirstIndex(nay, y)
                               => Place(entry, x) < Place(entry, y)
        /\ \A x \in A, y \in N : Place(entry, x) < Place(entry, y)
        /\ Len(entry) = SumLen(A) + Gaps(A) + SumLen(N) + Gaps(N)
                        + (IF N = {} THEN 0 ELSE 1)

\* what process_ext returns in the list named field for the leading,
\* non-CONTRIB rows of category cate, row after row in DATA order
ItemsOfCategory(ver, distro, cate, field) ==
    LET repo(row) == IF lower(distro) \in RpmFamily THEN row.rpm_repo ELSE row.deb_repo
    IN  Extend([i \in 1..Len(DATA) |->
                   IF /\ DATA[i].category = cate
                      /\ DATA[i].lead = "True"
                      /\ repo(DATA[i]) # <<"C","O","N","T","R","I","B">>
                   THEN process_ext(ver, distro, DATA[i])[field]
                   ELSE <<>>])

C5_EntriesDedupedInOrder ==
    (call.fn = "gen_ext_list" /\ call.ret.status = "ok") =>
        /\ Len(call.ret.repo_pkg) = Len(CATE)
        /\ Len(call.ret.ext_list) = Len(CATE)
        /\ \A c \in 1..Len(CATE) :
              /\ DedupedInOrder(call.ret.repo_pkg[c],
                     ItemsOfCategory(call.ver, call.distro, CATE[c], "pkg_aye"),
                     ItemsOfCategory(call.ver, call.distro, CATE[c], "pkg_nay"))
              /\ DedupedInOrder(call.ret.ext_list[c],
                     ItemsOfCategory(call.ver, call.distro, CATE[c], "ext_aye"),
                     ItemsOfCategory(call.ver, call.distro, CATE[c], "ext_nay"))

\* pg_search and pg_bm25 share one rpm package: for PG17 on el9 the package
\* entry of their category names it once, the extension entry names both
C5_Witness ==
    /\ call.fn = "gen_ext_list" /\ call.ret.status = "ok"
    /\ call.distro = <<"e","l","9">> /\ call.ver = <<"1","7">>
    /\ Len(DATA) = 2
    /\ DATA[1].name = <<"p","g","_","s","e","a","r","c","h">> /\ DATA[2].name = <<"p","g","_","b","m","2","5">>
    /\ call.ret.repo_pkg = <<<<"p","g","_","s","e","a","r","c","h","_","1","7">>>>
    /\ call.ret.ext_list = <<<<"p","g","_","s","e","a","r","c","h"," ","p","g","_","b","m","2","5">>>>

(***************************************************************************)
(* Vocabulary of the properties of a batch run.                            *)
(***************************************************************************)
\* the names of the files of a list of documents
Files(d) == [i \in 1..Len(d) |-> d[i].file]

\* the items of list without the repetitions of earlier items
FirstOccurrences(list) ==
    SelectIdx(list, {i \in 1..Len(list) : \A j \in 1..(i - 1) : list[j] # list[i]}, 1)

\* the categories of the CSV rows, each once, in file order
CsvCategories == FirstOccurrences([i \in 1..Len(csv) |-> csv[i].category])

\* the files of a complete run over csv, in the order they are written
ExpectedFiles ==
    <<<<"R","E","A","D","M","E",".","m","d">>, <<"l","i","s","t",".","m","d">>, <<"r","p","m",".","m","d">>, <<"d","e","b",".","m","d">>, <<"c","o","n","t","r","i","b",".","m","d">>,
      <<"c","a","t","e","g","o","r","i","e","s",".","m","d">>>>
    \o [c \in 1..Len(CsvCategories) |-> lower(CsvCategories[c]) \o <<".","m","d">>]
    \o [i \in 1..Len(csv) |-> csv[i].name \o <<".","m","d">>]

IsPrefix(a, b) == Len(a) <= Len(b) /\ a = SubSeq(b, 1, Len(a))

\* the tables hold a whole catalog
LoadComplete ==
    /\ Len(DATA) = Len(csv)
    /\ STAT # <<>> /\ STAT.stat.all = Len(csv)
    /\ Len(CATE) = Len(CsvCategories)
    /\ DOMAIN EXT_MAP = {csv[i].name : i \in 1..Len(csv)}

(***************************************************************************)
(* C1: the run is one linear batch.  While a load statement is still to    *)
(* run no document has been written; once a document has been written the  *)
(* tables are complete and no load statement runs again; the documents     *)
(* written so far are the first ones of README, list, rpm, deb, contrib,   *)
(* categories, the category pages in CATE order, the extension pages in    *)
(* DATA order; at the exit all of them have been written, and no step is   *)
(* taken from the exit.                                                    *)
(***************************************************************************)
C1_Order ==
    /\ pc \in LoadSteps => docs = <<>>
    /\ docs # <<>> => LoadComplete
    /\ IsPrefix(Files(docs), ExpectedFiles)
    /\ pc = "exit" => Files(docs) = ExpectedFiles
    /\ pc = "generate_all_list" => Len(docs) = 1
    /\ pc = "generate_category" => Len(docs) = 6 + k
    /\ pc = "generate_extension" => Len(docs) = 6 + Len(CATE) + k

C1_LinearBatch == [](C1_Order) /\ [][pc # "exit"]_vars

\* a run over two rows of two categories has written its ten files
C1_Witness ==
    /\ pc = "exit"
    /\ Len(csv) = 2 /\ Len(CATE) = 2
    /\ Len(docs) = 10
    /\ Files(docs) = ExpectedFiles

(***************************************************************************)
(* C2: rendering leaves the loaded catalog alone.  No step taken after the *)
(* load statements changes DATA, STAT, CATE, DEP_MAP or EXT_MAP.           *)
(***************************************************************************)
C2_RenderLeavesTables == [][pc \notin LoadSteps => UNCHANGED tables]_vars

\* the first extension page of a catalog of two rows, one requiring the
\* other, has been written and the tables are those of the load
C2_Witness ==
    /\ pc = "generate_extension" /\ k = 1
    /\ Len(DATA) = 2
    /\ DEP_MAP # <<>>
    /\ Len(docs) = 6 + Len(CATE) + 1
    /\ DATA = load_data(csv)
    /\ STAT = stat_data(DATA)

C8_ReachesExit == <>(pc = "exit")

\* a run whose loops went once over CATE and twice over DATA is at the exit
C8_Witness ==
    /\ pc = "exit" /\ run = 1
    /\ Len(DATA) = 2 /\ Len(CATE) = 1
    /\ Len(docs) = 9

(***************************************************************************)
(* C11: for the extension citus on d12, u22 and u24, process_ext and       *)
(* judge_ext name the extension citus10 for PG12 and citus11 for PG13 and  *)
(* put 'citus-10.2' and 'citus-11.3' in place of 'citus-12.1' in the       *)
(* package name; for PG14 and later, and on el7, el8 and el9, the          *)
(* extension name is the alias and the package is the family's pattern     *)
(* with the version substituted.                                           *)
(***************************************************************************)
C11_CitusRename ==
    LET row     == CallRow
        old     == call.distro \in {<<"d","1","2">>, <<"u","2","2">>, <<"u","2","4">>}
                   /\ call.ver \in {<<"1","2">>, <<"1","3">>}
        plain   == \/ call.distro \in {<<"d","1","2">>, <<"u","2","2">>, <<"u","2","4">>}
                      /\ call.ver \in {<<"1","4">>, <<"1","5">>, <<"1","6">>, <<"1","7">>}
                   \/ call.distro \in RpmDistros
        base    == Replace(SelectedPkg(call.distro, row), <<"$","v">>, call.ver)
        extname == IF ~old THEN row.alias
                   ELSE IF call.ver = <<"1","2">> THEN <<"c","i","t","u","s","1","0">> ELSE <<"c","i","t","u","s","1","1">>
        pkgname == IF ~old THEN base
                   ELSE IF call.ver = <<"1","2">>
                   THEN Replace(base, <<"c","i","t","u","s","-","1","2",".","1">>, <<"c","i","t","u","s","-","1","0",".","2">>)
                   ELSE Replace(base, <<"c","i","t","u","s","-","1","2",".","1">>, <<"c","i","t","u","s","-","1","1",".","3">>)
    IN  /\ (NamedCall("process_ext") /\ row.name = <<"c","i","t","u","s">> /\ (old \/ plain)) =>
              /\ ReturnedExtensions(call.ret) = <<extname>>
              /\ ReturnedPackages(call.ret) = <<pkgname>>
        /\ (NamedCall("judge_ext") /\ row.name = <<"c","i","t","u","s">> /\ (old \/ plain)) =>
              /\ call.ret.extension = extname
              /\ call.ret.package = pkgname

\* process_ext for PG12 on u22 enables the package postgresql-12-citus-10.2
\* and comments the extension citus10
C11_Witness ==
    /\ NamedCall("process_ext") /\ call.distro = <<"u","2","2">> /\ call.ver = <<"1","2">>
    /\ CallRow.name = <<"c","i","t","u","s">>
    /\ call.ret.pkg_aye = <<<<"p","o","s","t","g","r","e","s","q","l","-","1","2","-","c","i","t","u","s","-","1","0",".","2">>>>
    /\ call.ret.ext_nay = <<<<"#","c","i","t","u","s","1","0">>>>

(***************************************************************************)
(* C12: for the extensions of EXT_NOP_LIST, pg_mooncake and citus, every   *)
(* process_ext call that returns, for any version and any distro, returns  *)
(* an empty ext_aye: the extension is returned only '#'-commented, whether *)
(* its package is enabled or not.                                          *)
(***************************************************************************)
C12_NopExtensionsCommented ==
    (/\ call.fn = "process_ext" /\ call.ret.status = "ok"
     /\ In(CallRow.name, EXT_NOP_LIST)) =>
        /\ call.ret.ext_aye = <<>>
        /\ Len(call.ret.ext_nay) = 1
        /\ call.ret.ext_nay[1][1] = "#"

\* process_ext for PG17 on el9 enables the package of pg_mooncake and
\* comments its extension
C12_Witness ==
    /\ call.fn = "process_ext" /\ call.distro = <<"e","l","9">> /\ call.ver = <<"1","7">>
    /\ CallRow.name = <<"p","g","_","m","o","o","n","c","a","k","e">>
    /\ call.ret.pkg_aye = <<<<"p","g","_","m","o","o","n","c","a","k","e","_","1","7","*">>>>
    /\ call.ret.ext_aye = <<>>
    /\ call.ret.ext_nay = <<<<"#","p","g","_","m","o","o","n","c","a","k","e">>>>

(***************************************************************************)
(* C13: process_ext merges the babelfish extensions into one wiltondb      *)
(* entry.  For babelfishpg_tsql, babelfishpg_tds and babelfishpg_money it  *)
(* returns four empty lists on every distro.  For babelfishpg_common it    *)
(* returns exactly the commented package '#wiltondb' and the commented     *)
(* extension '#wiltondb' on el7, el8, el9, u20, u22 and u24, and four      *)
(* empty lists on d11 and d12.                                             *)
(***************************************************************************)
ReturnsNothing(ret) ==
    /\ ret.pkg_aye = <<>> /\ ret.pkg_nay = <<>>
    /\ ret.ext_aye = <<>> /\ ret.ext_nay = <<>>

C13_BabelfishMerged ==
    LET row == CallRow
        ret == call.ret
    IN  (call.fn = "process_ext" /\ ret.status = "ok") =>
          /\ row.name \in {<<"b","a","b","e","l","f","i","s","h","p","g","_","t","s","q","l">>, <<"b","a","b","e","l","f","i","s","h","p","g","_","t","d","s">>,
                            <<"b","a","b","e","l","f","i","s","h","p","g","_","m","o","n","e","y">>} => ReturnsNothing(ret)
          /\ (/\ row.name = <<"b","a","b","e","l","f","i","s","h","p","g","_","c","o","m","m","o","n">>
              /\ call.distro \in {<<"e","l","7">>, <<"e","l","8">>, <<"e","l","9">>, <<"u","2","0">>, <<"u","2","2">>, <<"u","2","4">>}) =>
                 /\ ret.pkg_aye = <<>> /\ ret.pkg_nay = <<<<"#","w","i","l","t","o","n","d","b">>>>
                 /\ ret.ext_aye = <<>> /\ ret.ext_nay = <<<<"#","w","i","l","t","o","n","d","b">>>>
          /\ (/\ row.name = <<"b","a","b","e","l","f","i","s","h","p","g","_","c","o","m","m","o","n">>
              /\ call.distro \in {<<"d","1","1">>, <<"d","1","2">>}) => ReturnsNothing(ret)

\* process_ext for PG15, which the row babelfishpg_common is packaged for on
\* deb, returns '#wiltondb' for the package and for the extension on u22
C13_Witness ==
    /\ call.fn = "process_ext" /\ call.ret.status = "ok"
    /\ call.distro = <<"u","2","2">> /\ call.ver = <<"1","5">>
    /\ CallRow.name = <<"b","a","b","e","l","f","i","s","h","p","g","_","c","o","m","m","o","n">>
    /\ CallRow.has_deb /\ In(<<"1","5">>, CallRow.deb_pg)
    /\ call.ret.pkg_nay = <<<<"#","w","i","l","t","o","n","d","b">>>>
    /\ call.ret.ext_nay = <<<<"#","w","i","l","t","o","n","d","b">>>>

(***************************************************************************)
(* C14: for every row whose name starts with 'hunspell', process_ext       *)
(* returns exactly one package entry, enabled or commented; it returns one *)
(* extension entry, named 'hunspell', for hunspell_cs_cz and no extension  *)
(* entry for any other hunspell row; so each extension entry gen_ext_list  *)
(* and gen_cate_ext_list build for a category names hunspell at most once. *)
(***************************************************************************)
C14_HunspellMerged ==
    LET ret == call.ret
    IN  /\ (/\ call.fn = "process_ext" /\ ret.status = "ok"
            /\ StartsWith(CallRow.name, <<"h","u","n","s","p","e","l","l">>)) =>
               /\ Len(ret.pkg_aye) + Len(ret.pkg_nay) = 1
               /\ ReturnedExtensions(ret) =
                      IF CallRow.name = <<"h","u","n","s","p","e","l","l","_","c","s","_","c","z">> THEN <<<<"h","u","n","s","p","e","l","l">>>> ELSE <<>>
        /\ (call.fn \in {"gen_ext_list", "gen_cate_ext_list"} /\ ret.status = "ok") =>
               \A c \in 1..Len(ret.ext_list) :
                  Cardinality(Places(ret.ext_list[c], <<"h","u","n","s","p","e","l","l">>))
                    + Cardinality(Places(ret.ext_list[c], <<"#","h","u","n","s","p","e","l","l">>)) <= 1

\* a catalog of hunspell_cs_cz and hunspell_de_de: for PG17 on el9 the
\* category's packages are both listed and its extension entry is 'hunspell'
C14_Witness ==
    /\ call.fn = "gen_ext_list" /\ call.ret.status = "ok"
    /\ call.ver = <<"1","7">> /\ call.distro = <<"e","l","9">>
    /\ Len(DATA) = 2
    /\ DATA[1].name = <<"h","u","n","s","p","e","l","l","_","c","s","_","c","z">> /\ DATA[2].name = <<"h","u","n","s","p","e","l","l","_","d","e","_","d","e">>
    /\ call.ret.repo_pkg = <<<<"h","u","n","s","p","e","l","l","_","c","s","_","c","z","_","1","7"," ","h","u","n","s","p","e","l","l","_","d","e","_","d","e","_","1","7">>>>
    /\ call.ret.ext_list = <<<<"h","u","n","s","p","e","l","l">>>>

(***************************************************************************)
(* C15: on u24, for timescaledb with PG12 and for pg_partman and           *)
(* timeseries with PG12 and PG13, whatever the row's deb_pg and has_deb,   *)
(* process_ext returns one '#'-commented package entry and one             *)
(* '#'-commented extension entry and no enabled entry, and judge_ext       *)
(* returns avail = False.                                                  *)
(***************************************************************************)
U24Missing(ver, name) ==
    \/ name = <<"t","i","m","e","s","c","a","l","e","d","b">> /\ ver = <<"1","2">>
    \/ name \in {<<"p","g","_","p","a","r","t","m","a","n">>, <<"t","i","m","e","s","e","r","i","e","s">>} /\ ver \in {<<"1","2">>, <<"1","3">>}

C15_NotOfferedOnU24 ==
    LET ret == call.ret
    IN  (/\ call.distro = <<"u","2","4">> /\ ret.status = "ok"
         /\ U24Missing(call.ver, CallRow.name)) =>
           /\ call.fn = "process_ext" =>
                 /\ ret.pkg_aye = <<>> /\ ret.ext_aye = <<>>
                 /\ Len(ret.pkg_nay) = 1 /\ ret.pkg_nay[1][1] = "#"
                 /\ Len(ret.ext_nay) = 1 /\ ret.ext_nay[1][1] = "#"
           /\ call.fn = "judge_ext" => ret.avail = FALSE

\* the row pg_partman lists PG13 for deb, and process_ext for PG13 on u24
\* returns its package and its extension commented
C15_Witness ==
    /\ call.fn = "process_ext" /\ call.distro = <<"u","2","4">> /\ call.ver = <<"1","3">>
    /\ CallRow.name = <<"p","g","_","p","a","r","t","m","a","n">>
    /\ CallRow.has_deb /\ In(<<"1","3">>, CallRow.deb_pg)
    /\ call.ret.pkg_nay = <<<<"#","p","o","s","t","g","r","e","s","q","l","-","1","3","-","p","a","r","t","m","a","n">>>>
    /\ call.ret.ext_nay = <<<<"#","p","g","_","p","a","r","t","m","a","n">>>>

(***************************************************************************)
(* C16, as stated: process_ext, judge_ext, gen_ext_list, gen_cate_ext_list *)
(* and gen_param fail with the 'Invalid distro' ValueError, returning no   *)
(* list, for every distro outside {rpm, el7, el8, el9, deb, u20, u22, u24, *)
(* d12, d11}.                                                              *)
(***************************************************************************)
ValidDistros ==
    {<<"r","p","m">>, <<"e","l","7">>, <<"e","l","8">>, <<"e","l","9">>, <<"d","e","b">>, <<"u","2","0">>, <<"u","2","2">>, <<"u","2","4">>, <<"d","1","2">>, <<"d","1","1">>}

DistroFunctions ==
    {"process_ext", "judge_ext", "gen_ext_list", "gen_cate_ext_list", "gen_param"}

C16_EveryOtherDistroFails ==
    (call.fn \in DistroFunctions /\ call.distro \notin ValidDistros) =>
        call.ret.status = "ValueError"

\* whether gen_ext_list (cates: every category) or gen_cate_ext_list (cates:
\* its category) has a row to pass to process_ext: a leading row of one of
\* the categories whose repository, in the family of the lower-cased
\* distro, is not CONTRIB
HasRowToProcess(distro, cates) ==
    \E i \in 1..Len(DATA) :
        /\ DATA[i].category \in cates
        /\ DATA[i].lead = "True"
        /\ (IF lower(distro) \in {<<"r","p","m">>, <<"e","l","7">>, <<"e","l","8">>, <<"e","l","9">>}
            THEN DATA[i].rpm_repo ELSE DATA[i].deb_repo) # <<"C","O","N","T","R","I","B">>

(***************************************************************************)
(* C16, amended: process_ext and judge_ext fail with the 'Invalid distro'  *)
(* ValueError for every distro outside the set; gen_ext_list,              *)
(* gen_cate_ext_list and gen_param fail with it for every distro whose     *)
(* lower-cased form is outside the set.  For a distro outside the set      *)
(* whose lower-cased form is inside it, gen_param does not fail with it,   *)
(* and gen_ext_list and gen_cate_ext_list fail with it exactly when they   *)
(* have a row to pass to process_ext.  A call that fails returns nothing.  *)
(***************************************************************************)
C16_InvalidDistroFails ==
    LET fails    == call.ret.status = "ValueError"
        outside  == call.distro \notin ValidDistros
        lowered  == lower(call.distro) \in ValidDistros
        cates    == IF call.fn = "gen_ext_list" THEN {CATE[c] : c \in 1..Len(CATE)}
                    ELSE {CATE[call.i]}
    IN  /\ (call.fn \in {"process_ext", "judge_ext"} /\ outside) => fails
        /\ (call.fn \in {"gen_ext_list", "gen_cate_ext_list", "gen_param"} /\ ~lowered)
              => fails
        /\ (call.fn = "gen_param" /\ lowered) => ~fails
        /\ (call.fn \in {"gen_ext_list", "gen_cate_ext_list"} /\ outside /\ lowered) =>
              (fails <=> HasRowToProcess(call.distro, cates))

\* gen_param with the distro el10 failed
C16_Witness ==
    /\ call.fn = "gen_param" /\ call.distro = <<"e","l","1","0">>
    /\ Len(DATA) = 2
    /\ call.ret.status = "ValueError"

(***************************************************************************)
(* C17: tabulate(cols, filter) returns a header line, a separator line and *)
(* then exactly one line for each DATA row that satisfies the filter, in   *)
(* DATA order, each with one cell per requested column in the requested    *)
(* order; rows that fail the filter contribute nothing; the separator      *)
(* marks a column as centred (':---:') exactly when its descriptor has     *)
(* center set.                                                             *)
(***************************************************************************)
\* the cells of a table line '| a | b |': the texts between the bars
Cells(line) ==
    LET inner  == SubSeq(line, 3, Len(line) - 2)
        bars   == {p \in 1..(Len(inner) - 2) : SubSeq(inner, p, p + 2) = <<" ","|"," ">>}
        n      == Cardinality(bars) + 1
        bar(j) == IF j = 0 THEN -2
                  ELSE IF j = n THEN Len(inner) + 1
                  ELSE CHOOSE p \in bars : Cardinality({q \in bars : q < p}) = j - 1
    IN  [j \in 1..n |-> SubSeq(inner, bar(j - 1) + 3, bar(j) - 1)]

\* line is a table line: it starts with '| ' and ends with ' |'
IsTableLine(line) ==
    /\ Len(line) >= 4
    /\ SubSeq(line, 1, 2) = <<"|"," ">>
    /\ SubSeq(line, Len(line) - 1, Len(line)) = <<" ","|">>

\* text is the table of the columns cols for the rows of DATA at the
\* indexes keep
IsTableOf(text, cols, keep) ==
    LET lines   == Split(text, "\n")
        marks   == Split(lines[2], "|")
        nth(n)  == CHOOSE i \in keep : Cardinality({j \in keep : j < i}) = n - 1
    IN  /\ Len(lines) = Cardinality(keep) + 3
        /\ lines[Len(lines)] = <<>>
        /\ IsTableLine(lines[1])
        /\ Cells(lines[1]) = [c \in 1..Len(cols) |-> COLS[cols[c]].header]
        /\ Len(marks) = Len(cols) + 2
        /\ marks[1] = <<>> /\ marks[Len(marks)] = <<>>
        /\ \A c \in 1..Len(cols) :
              /\ Len(marks[c + 1]) = Len(COLS[cols[c]].header) + 2
              /\ \A p \in 2..(Len(marks[c + 1]) - 1) : marks[c + 1][p] = "-"
              /\ marks[c + 1][1] = marks[c + 1][Len(marks[c + 1])]
              /\ marks[c + 1][1] = IF COLS[cols[c]].center THEN ":" ELSE "-"
        /\ \A n \in 1..Cardinality(keep) :
              /\ IsTableLine(lines[n + 2])
              /\ Cells(lines[n + 2]) =
                     [c \in 1..Len(cols) |-> getcol(cols[c], DATA[nth(n)])]

C17_TableOfFilteredRows ==
    call.fn = "tabulate" =>
        /\ call.ret.status = "ok"
        /\ IsTableOf(call.ret.text, call.cols,
                     {i \in 1..Len(DATA) : FilterOf(call.filter)[DATA[i]]})

(***************************************************************************)
(* C18: for every row load_data returns, has_both is true exactly when the *)
(* extension has both an RPM and a DEB package: has_both = has_rpm and     *)
(* has_deb.                                                                *)
(***************************************************************************)
C18_HasBothIsRpmAndDeb ==
    \A i \in 1..Len(DATA) :
        DATA[i].has_both <=> (DATA[i].has_rpm /\ DATA[i].has_deb)

(***************************************************************************)
(* C19: in the install instructions of an extension page the APT section   *)
(* is driven by the DEB columns: it is included exactly when the extension *)
(* has a DEB package, and it holds one 'apt install' command per version   *)
(* in deb_pg exactly when the deb package pattern contains '$v', and       *)
(* otherwise a single command with the deb package name.                   *)
(***************************************************************************)
\* the 'apt install' command lines of an install text, by the position
\* they start at
AptCommands(install) ==
    LET n      == Len(install)
        starts == {p \in 1..(n - 11) :
                      /\ p = 1 \/ install[p - 1] = "\n"
                      /\ SubSeq(install, p, p + 11) = <<"a","p","t"," ","i","n","s","t","a","l","l"," ">>}
        end(p) == CHOOSE e \in p..(n + 1) :
                      /\ e = n + 1 \/ install[e] = "\n"
                      /\ \A j \in p..(e - 1) : install[j] # "\n"
    IN  [p \in starts |-> SubSeq(install, p, end(p) - 1)]

C19_AptDrivenByDebColumns ==
    call.fn = "generate_extension" /\ call.ret.status = "ok" =>
        LET ext     == DATA[call.i]
            install == call.ret.args[7]
            apt     == AptCommands(install)
        IN  /\ Contains(install, <<"*","*","A","P","T","*","*"," ","r","e","p","o",":">>) <=> ext.has_deb
            /\ ~ext.has_deb => DOMAIN apt = {}
            /\ ext.has_deb =>
                  IF Contains(ext.deb_pkg, <<"$","v">>)
                  THEN Cardinality(DOMAIN apt) = Len(ext.deb_pg)
                  ELSE /\ Cardinality(DOMAIN apt) = 1
                       /\ \A j \in DOMAIN apt :
                             apt[j] = <<"a","p","t"," ","i","n","s","t","a","l","l"," ">> \o ext.deb_pkg \o <<";">>

====
